---------------------------- MODULE Spec2Model ----------------------------
(***************************************************************************)
(* Model of the tui-rs-tree-widget core: TreeState (src/src/tree_state.rs), *)
(* the flattening engine (src/src/tree_item/flatten.rs, src/src/flatten.rs, *)
(* src/src/generic_tree_item.rs), the windowing                             *)
(* and the drawing of Tree::render (src/src/lib.rs), the construction of    *)
(* TreeItems (src/src/tree_item.rs) and the providers of nodes              *)
(* (src/src/tree_data.rs, src/src/json/render.rs, src/src/json/select.rs).  *)
(*                                                                         *)
(* Vec<T> is a sequence, Option<T> a sequence of length <= 1 (<<>> is None),*)
(* HashSet<T> a set.  Indices are 0-based as in the source; v[i] of the     *)
(* source is v[i + 1] here.                                                 *)
(***************************************************************************)
EXTENDS Integers, Sequences, FiniteSets, TLC

VARIABLES
    \* TreeState (src/src/tree_state.rs:23-35)
    offset,
    opened,
    selected,
    ensure_selected_in_view_on_next_render,
    last_area,
    last_biggest_index,
    last_identifiers,
    last_rendered_identifiers,
    \* the operation that ran last, its return value, and the locals of the
    \* last Tree::render call (NoRender after any other operation)
    op,
    ret,
    rendered,
    \* the provider (the items of the Tree) of the windowing and the
    \* flattening specification
    tree_items,
    \* flattening specification: open-set, the three results and the height
    \* required
    f_open,
    f_nodes,
    f_generic,
    f_flattened,
    f_height,
    \* construction specification: the item held, the arguments of the last
    \* constructing call and the Result it returned
    c_item,
    c_args,
    c_result,
    \* JSON specification: the value, the open-set and the nodes got
    json,
    j_open,
    j_nodes,
    \* resolving specification: the path handed to the provider, what it
    \* resolves to, and the buffer after the provider's render
    r_path,
    r_found,
    r_buffer,
    \* drawing specification: the rows the last Tree::render drew
    d_rows

state_vars == <<offset, opened, selected, ensure_selected_in_view_on_next_render,
                last_area, last_biggest_index, last_identifiers,
                last_rendered_identifiers>>
ghost_vars == <<op, ret, rendered>>
flatten_vars == <<tree_items, f_open, f_nodes, f_generic, f_flattened, f_height>>
construct_vars == <<c_item, c_args, c_result>>
json_vars == <<json, j_open, j_nodes>>
resolve_vars == <<r_path, r_found, r_buffer>>
draw_vars == <<d_rows>>
vars == <<state_vars, ghost_vars, flatten_vars, construct_vars, json_vars, resolve_vars, draw_vars>>

----------------------------------------------------------------------------
(* Bounds of the model *)

\* rows of the largest inner area handed to render
MaxRows == 3
\* longest node list of the windowing specification
MaxNodes == 3
\* largest number of children given to TreeItem::new and Tree::new
MaxChildren == 2
\* levels of children below the deepest item built
MaxDepth == 2

\* usize::MAX, scaled to the largest integer the model checker represents
UsizeMax == 2147483647

Min(a, b) == IF a < b THEN a ELSE b
Max(a, b) == IF a > b THEN a ELSE b

saturating_sub(a, b) == IF a < b THEN 0 ELSE a - b
saturating_add(a, b) == IF a > UsizeMax - b THEN UsizeMax ELSE a + b

None == <<>>
Some(x) == <<x>>

----------------------------------------------------------------------------
(* Tree items and providers *)

\* TreeItem { identifier, text, children }; the text is kept as its height
TreeItem(identifier, height, children) ==
    [identifier |-> identifier, height |-> height, children |-> children]

new_leaf(identifier, height) == TreeItem(identifier, height, <<>>)

\* TreeItem::example(): a, b(c, d(e, f), g), h, every text one line high
example ==
    << new_leaf("a", 1),
       TreeItem("b", 1,
           << new_leaf("c", 1),
              TreeItem("d", 1, << new_leaf("e", 1), new_leaf("f", 1) >>),
              new_leaf("g", 1) >>),
       new_leaf("h", 1) >>

\* std::io::Result: Ok(value) or Err(kind)
Ok(value) == [ok |-> TRUE, value |-> value]
Err(kind) == [ok |-> FALSE, kind |-> kind]

\* mutant: the children are compared as whole items, not by identifier
new_comparing_items(identifier, height, children) ==
    IF Cardinality({children[i] : i \in 1..Len(children)}) # Len(children)
    THEN Err("AlreadyExists")
    ELSE Ok(TreeItem(identifier, height, children))

\* TreeItem::new
new(identifier, height, children) ==
    LET identifiers == {children[i].identifier : i \in 1..Len(children)}
    IN  IF Cardinality(identifiers) # Len(children)
        THEN Err("AlreadyExists")
        ELSE Ok(TreeItem(identifier, height, children))

\* Tree { items, .. }
Tree(items) == [items |-> items]

\* Tree::new
tree_new(items) ==
    LET identifiers == {items[i].identifier : i \in 1..Len(items)}
    IN  IF Cardinality(identifiers) # Len(items)
        THEN Err("AlreadyExists")
        ELSE Ok(Tree(items))

\* mutant: the child is pushed before the identifiers are compared
add_child_push_first(self, child) ==
    LET pushed == [self EXCEPT !.children = Append(@, child)]
        existing == {self.children[i].identifier : i \in 1..Len(self.children)}
    IN  IF child.identifier \in existing
        THEN [self |-> pushed, ret |-> Err("AlreadyExists")]
        ELSE [self |-> pushed, ret |-> Ok(<<>>)]

\* TreeItem::add_child: the item after the call and the Result
add_child(self, child) ==
    LET existing == {self.children[i].identifier : i \in 1..Len(self.children)}
    IN  IF child.identifier \in existing
        THEN [self |-> self, ret |-> Err("AlreadyExists")]
        ELSE [self |-> [self EXCEPT !.children = Append(@, child)], ret |-> Ok(<<>>)]

\* unique_identifiers::add_child
unique_identifiers_add_child(existing_children, add) ==
    LET add_identifier == add.identifier
        identifier_exists_already ==
            \E i \in 1..Len(existing_children) :
                existing_children[i].identifier = add_identifier
    IN  IF identifier_exists_already THEN Err("AlreadyExists") ELSE Ok(<<>>)

\* PrerenderedTreeItem::add_child: the item after the call and the Result
prerendered_add_child(self, child) ==
    LET checked == unique_identifiers_add_child(self.children, child)
    IN  IF ~checked.ok
        THEN [self |-> self, ret |-> checked]
        ELSE [self |-> [self EXCEPT !.children = Append(@, child)], ret |-> Ok(<<>>)]

----------------------------------------------------------------------------
(* Flattening *)

\* Node { identifier, has_children, height }
Node(identifier, has_children, height) ==
    [identifier |-> identifier, has_children |-> has_children, height |-> height]

\* Node::depth
depth(node) == Len(node.identifier) - 1

\* mutant: every item is taken as open
RECURSIVE flatten_all_open(_, _, _)
flatten_all_open(open_identifiers, items, current) ==
    IF items = <<>> THEN <<>>
    ELSE LET item == Head(items)
             child_identifier == Append(current, item.identifier)
             node == Node(child_identifier, item.children # <<>>, item.height)
         IN  <<node>>
             \o flatten_all_open(open_identifiers, item.children, child_identifier)
             \o flatten_all_open(open_identifiers, Tail(items), current)

\* mutant: the children of an open item are flattened below the identifier
\* of their parent's parent
RECURSIVE flatten_children_at_top(_, _, _)
flatten_children_at_top(open_identifiers, items, current) ==
    IF items = <<>> THEN <<>>
    ELSE LET item == Head(items)
             child_identifier == Append(current, item.identifier)
             child_result ==
                 IF child_identifier \in open_identifiers
                 THEN flatten_children_at_top(open_identifiers, item.children, current)
                 ELSE <<>>
             node == Node(child_identifier, item.children # <<>>, item.height)
         IN  <<node>> \o child_result
             \o flatten_children_at_top(open_identifiers, Tail(items), current)

\* flatten of src/src/tree_item/flatten.rs: the for loop over items is the
\* recursion over the tail of the list
RECURSIVE flatten(_, _, _)
flatten(open_identifiers, items, current) ==
    IF items = <<>> THEN <<>>
    ELSE LET item == Head(items)
             child_identifier == Append(current, item.identifier)
             child_result ==
                 IF child_identifier \in open_identifiers
                 THEN Some(flatten(open_identifiers, item.children, child_identifier))
                 ELSE None
             node == Node(child_identifier, item.children # <<>>, item.height)
         IN  <<node>>
             \o (IF child_result # None THEN child_result[1] ELSE <<>>)
             \o flatten(open_identifiers, Tail(items), current)

\* Node { depth, has_children, height, identifier } of the generic item
GenericNode(node_depth, has_children, height, identifier) ==
    [depth |-> node_depth, has_children |-> has_children, height |-> height,
     identifier |-> identifier]

\* mutant: the depth is taken from the identifier of the child
RECURSIVE generic_flatten_child_depth(_, _, _)
generic_flatten_child_depth(open_identifiers, items, current) ==
    IF items = <<>> THEN <<>>
    ELSE LET item == Head(items)
             child_identifier == Append(current, item.identifier)
             children == item.children
             child_result ==
                 IF child_identifier \in open_identifiers
                 THEN generic_flatten_child_depth(open_identifiers, children,
                                                  child_identifier)
                 ELSE <<>>
             node == GenericNode(Len(child_identifier), children # <<>>,
                                 item.height, child_identifier)
         IN  <<node>> \o child_result
             \o generic_flatten_child_depth(open_identifiers, Tail(items), current)

\* flatten of src/src/generic_tree_item.rs
RECURSIVE generic_flatten(_, _, _)
generic_flatten(open_identifiers, items, current) ==
    IF items = <<>> THEN <<>>
    ELSE LET node_depth == Len(current)
             item == Head(items)
             child_identifier == Append(current, item.identifier)
             children == item.children
             has_children == children # <<>>
             child_result ==
                 IF child_identifier \in open_identifiers
                 THEN Some(generic_flatten(open_identifiers, children, child_identifier))
                 ELSE None
             node == GenericNode(node_depth, has_children, item.height, child_identifier)
         IN  <<node>>
             \o (IF child_result # None THEN child_result[1] ELSE <<>>)
             \o generic_flatten(open_identifiers, Tail(items), current)

\* Flattened { identifier, item, has_no_children, height }
Flattened(identifier, item, has_no_children, height) ==
    [identifier |-> identifier, item |-> item,
     has_no_children |-> has_no_children, height |-> height]

\* Flattened::depth
flattened_depth(flattened) == Len(flattened.identifier) - 1

\* mutant: the children of an open item come after its later siblings
RECURSIVE flatten_items_children_last(_, _, _)
flatten_items_children_last(open_set, items, current) ==
    IF items = <<>> THEN <<>>
    ELSE LET item == Head(items)
             child_identifier == Append(current, item.identifier)
             children == item.children
             child_result ==
                 IF child_identifier \in open_set
                 THEN flatten_items_children_last(open_set, children, child_identifier)
                 ELSE <<>>
             flattened == Flattened(child_identifier, item, children = <<>>, item.height)
         IN  <<flattened>>
             \o flatten_items_children_last(open_set, Tail(items), current)
             \o child_result

\* flatten of src/src/flatten.rs
RECURSIVE flatten_items(_, _, _)
flatten_items(open_set, items, current) ==
    IF items = <<>> THEN <<>>
    ELSE LET item == Head(items)
             child_identifier == Append(current, item.identifier)
             children == item.children
             has_no_children == children = <<>>
             child_result ==
                 IF child_identifier \in open_set
                 THEN Some(flatten_items(open_set, children, child_identifier))
                 ELSE None
             flattened == Flattened(child_identifier, item, has_no_children, item.height)
         IN  <<flattened>>
             \o (IF child_result # None THEN child_result[1] ELSE <<>>)
             \o flatten_items(open_set, Tail(items), current)

\* mutant: the height of the children is added whether the item is open or not
RECURSIVE total_required_height_all(_, _, _)
total_required_height_all(open_set, items, current) ==
    IF items = <<>> THEN 0
    ELSE LET item == Head(items)
             child_identifier == Append(current, item.identifier)
             below == total_required_height_all(open_set, item.children, child_identifier)
         IN  saturating_add(saturating_add(item.height, below),
                            total_required_height_all(open_set, Tail(items), current))

\* total_required_height of src/src/flatten.rs
RECURSIVE total_required_height(_, _, _)
total_required_height(open_set, items, current) ==
    IF items = <<>> THEN 0
    ELSE LET item == Head(items)
             child_identifier == Append(current, item.identifier)
             own == item.height
             result == IF child_identifier \in open_set
                       THEN saturating_add(own,
                                total_required_height(open_set, item.children,
                                                      child_identifier))
                       ELSE own
         IN  saturating_add(result, total_required_height(open_set, Tail(items), current))

\* TreeData::total_required_height: the heights of the nodes, folded with
\* saturating_add
RECURSIVE tree_data_total_required_height(_)
tree_data_total_required_height(nodes) ==
    IF nodes = <<>> THEN 0
    ELSE saturating_add(tree_data_total_required_height(SubSeq(nodes, 1, Len(nodes) - 1)),
                        nodes[Len(nodes)].height)


----------------------------------------------------------------------------
(* The JSON provider: TreeData for serde_json::Value                        *)

\* Selector: the key of an object, the index of an array, or none for a
\* root that is no container
ObjectKey(key) == [kind |-> "ObjectKey", key |-> key, index |-> 0]
ArrayIndex(index) == [kind |-> "ArrayIndex", key |-> "", index |-> index]
SelectorNone == [kind |-> "None", key |-> "", index |-> 0]

\* serde_json::Value: Null, Bool, Number, String, Array of values, Object as
\* the (key, value) pairs in the order its Map iterates
JsonScalar(kind) == [kind |-> kind, array |-> <<>>, object |-> <<>>]
JsonArray(array) == [kind |-> "Array", array |-> array, object |-> <<>>]
JsonObject(object) == [kind |-> "Object", array |-> <<>>, object |-> object]

RECURSIVE get_nodes_recursive(_, _, _)
RECURSIVE get_object_nodes(_, _, _)
RECURSIVE get_array_nodes(_, _, _)

\* mutant: the children follow their container whether it is open or not
get_nodes_recursive_all_open(open_identifiers, value, current_identifier) ==
    IF value.kind = "Array"
    THEN <<Node(current_identifier, value.array # <<>>, 1)>>
         \o get_array_nodes(open_identifiers, value.array, current_identifier)
    ELSE IF value.kind = "Object"
    THEN <<Node(current_identifier, value.object # <<>>, 1)>>
         \o get_object_nodes(open_identifiers, value.object, current_identifier)
    ELSE <<Node(current_identifier, FALSE, 1)>>

\* get_nodes_recursive of src/src/json/render.rs
get_nodes_recursive(open_identifiers, value, current_identifier) ==
    IF value.kind = "Array"
    THEN LET children ==
                 IF current_identifier \in open_identifiers
                 THEN Some(get_array_nodes(open_identifiers, value.array,
                                           current_identifier))
                 ELSE None
         IN  <<Node(current_identifier, value.array # <<>>, 1)>>
             \o (IF children # None THEN children[1] ELSE <<>>)
    ELSE IF value.kind = "Object"
    THEN LET children ==
                 IF current_identifier \in open_identifiers
                 THEN Some(get_object_nodes(open_identifiers, value.object,
                                            current_identifier))
                 ELSE None
         IN  <<Node(current_identifier, value.object # <<>>, 1)>>
             \o (IF children # None THEN children[1] ELSE <<>>)
    ELSE <<Node(current_identifier, FALSE, 1)>>

\* get_object_nodes: the nodes of every (key, value), one after the other
get_object_nodes(open_identifiers, object, current_identifier) ==
    IF object = <<>> THEN <<>>
    ELSE LET child_identifier == Append(current_identifier, ObjectKey(Head(object)[1]))
         IN  get_nodes_recursive(open_identifiers, Head(object)[2], child_identifier)
             \o get_object_nodes(open_identifiers, Tail(object), current_identifier)

\* get_array_nodes: the nodes of every (index, value), one after the other
get_array_nodes(open_identifiers, array, current_identifier) ==
    LET RECURSIVE enumerate(_)
        enumerate(index) ==
            IF index >= Len(array) THEN <<>>
            ELSE LET child_identifier == Append(current_identifier, ArrayIndex(index))
                 IN  get_nodes_recursive(open_identifiers, array[index + 1],
                                         child_identifier)
                     \o enumerate(index + 1)
    IN  enumerate(0)

\* TreeData::get_nodes for Value
get_nodes(self, open_identifiers) ==
    IF self.kind = "Array"
    THEN get_array_nodes(open_identifiers, self.array, <<>>)
    ELSE IF self.kind = "Object"
    THEN get_object_nodes(open_identifiers, self.object, <<>>)
    ELSE <<Node(<<SelectorNone>>, FALSE, 1)>>

\* mutant: select_one knows containers alone, a scalar is never selected
select_one_containers_only(root, selector) ==
    IF root.kind = "Object" /\ selector.kind = "ObjectKey"
    THEN LET hits == {i \in 1..Len(root.object) : root.object[i][1] = selector.key}
         IN  IF hits = {} THEN None
             ELSE Some(root.object[CHOOSE i \in hits : TRUE][2])
    ELSE IF root.kind = "Array" /\ selector.kind = "ArrayIndex"
    THEN IF selector.index < Len(root.array)
         THEN Some(root.array[selector.index + 1])
         ELSE None
    ELSE None

\* select_one of src/src/json/select.rs: one layer into root
select_one(root, selector) ==
    IF root.kind = "Object" /\ selector.kind = "ObjectKey"
    THEN LET hits == {i \in 1..Len(root.object) : root.object[i][1] = selector.key}
         IN  IF hits = {} THEN None
             ELSE Some(root.object[CHOOSE i \in hits : TRUE][2])
    ELSE IF root.kind = "Array" /\ selector.kind = "ArrayIndex"
    THEN IF selector.index < Len(root.array)
         THEN Some(root.array[selector.index + 1])
         ELSE None
    ELSE IF root.kind \notin {"Object", "Array"} /\ selector.kind = "None"
    THEN Some(root)
    ELSE None

\* select of src/src/json/select.rs
RECURSIVE json_select(_, _)
json_select(root, selector) ==
    IF selector = <<>> THEN Some(root)
    ELSE LET current == select_one(root, Head(selector))
         IN  IF current = None THEN None
             ELSE json_select(current[1], Tail(selector))

\* get_value_span: what is drawn for a value
get_value_span(value) ==
    IF value.kind = "Array" THEN (IF value.array = <<>> THEN "[]" ELSE "[")
    ELSE IF value.kind = "Object" THEN (IF value.object = <<>> THEN "{}" ELSE "{")
    ELSE value.kind

\* TreeData::render for Value: the buffer after the call; what is drawn is
\* kept as the area, the key and the span of the value
json_render(self, identifier, area, buffer) ==
    IF identifier = <<>> THEN buffer
    ELSE LET key == identifier[Len(identifier)]
             value == json_select(self, identifier)
         IN  IF value = None THEN buffer
             ELSE Append(buffer, [area |-> area, key |-> key,
                                  text |-> get_value_span(value[1])])

\* get_item_direct of src/src/tree_item.rs
get_item_direct(root, identifier) ==
    LET hits == {i \in 1..Len(root) : root[i].identifier = identifier}
    IN  IF hits = {} THEN None
        ELSE Some(root[CHOOSE i \in hits : \A j \in hits : i <= j])

\* get_item of src/src/tree_item.rs
RECURSIVE get_item(_, _)
get_item(root, identifier) ==
    IF identifier = <<>> THEN None
    ELSE LET current == get_item_direct(root, Head(identifier))
         IN  IF current = None THEN None
             ELSE IF Tail(identifier) = <<>> THEN current
             ELSE get_item(current[1].children, Tail(identifier))

\* TreeData::render for Vec<TreeItem>: the buffer after the call
tree_data_render(self, identifier, area, buffer) ==
    LET item == get_item(self, identifier)
    IN  IF item = None THEN buffer
        ELSE Append(buffer, [area |-> area, key |-> identifier[Len(identifier)],
                             text |-> item[1].height])


----------------------------------------------------------------------------
(* TreeState.  A method is an operator from the state (self) and its       *)
(* arguments to the state after the call and the value it returns.          *)

\* the TreeState as one value
State ==
    [offset |-> offset,
     opened |-> opened,
     selected |-> selected,
     ensure_selected_in_view_on_next_render |-> ensure_selected_in_view_on_next_render,
     last_area |-> last_area,
     last_biggest_index |-> last_biggest_index,
     last_identifiers |-> last_identifiers,
     last_rendered_identifiers |-> last_rendered_identifiers]

Rect(x, y, width, height) == [x |-> x, y |-> y, width |-> width, height |-> height]
RectZero == Rect(0, 0, 0, 0)
Position(x, y) == [x |-> x, y |-> y]

\* Rect::contains (ratatui), as used by rendered_at
contains(rect, position) ==
    /\ position.x >= rect.x
    /\ position.x < rect.x + rect.width
    /\ position.y >= rect.y
    /\ position.y < rect.y + rect.height

\* TreeState::default
default ==
    [offset |-> 0,
     opened |-> {},
     selected |-> <<>>,
     ensure_selected_in_view_on_next_render |-> FALSE,
     last_area |-> RectZero,
     last_biggest_index |-> 0,
     last_identifiers |-> <<>>,
     last_rendered_identifiers |-> <<>>]

Returns(self, value) == [self |-> self, ret |-> value]

\* mutant: the flag is set only when the selection changes
select_flag_on_change(self, identifier) ==
    LET changed == self.selected # identifier
        flagged == IF changed
                   THEN [self EXCEPT !.ensure_selected_in_view_on_next_render = TRUE]
                   ELSE self
    IN  Returns([flagged EXCEPT !.selected = identifier], changed)

\* mutant: select scrolls back to the top
select_from_top(self, identifier) ==
    LET flagged == [self EXCEPT !.ensure_selected_in_view_on_next_render = TRUE,
                                !.offset = 0]
        changed == self.selected # identifier
    IN  Returns([flagged EXCEPT !.selected = identifier], changed)

\* TreeState::select
select(self, identifier) ==
    LET flagged == [self EXCEPT !.ensure_selected_in_view_on_next_render = TRUE]
        changed == self.selected # identifier
    IN  Returns([flagged EXCEPT !.selected = identifier], changed)

\* mutant: open without the check for the empty identifier
open_unchecked(self, identifier) ==
    Returns([self EXCEPT !.opened = @ \cup {identifier}],
            identifier \notin self.opened)

\* mutant: open answering whether the identifier was there before
open_inverted(self, identifier) ==
    IF identifier = <<>>
    THEN Returns(self, FALSE)
    ELSE Returns([self EXCEPT !.opened = @ \cup {identifier}],
                 identifier \in self.opened)

\* TreeState::open (HashSet::insert returns whether the value was new)
open(self, identifier) ==
    IF identifier = <<>>
    THEN Returns(self, FALSE)
    ELSE Returns([self EXCEPT !.opened = @ \cup {identifier}],
                 identifier \notin self.opened)

\* mutant: close takes the identifiers below the closed one along
close_with_descendants(self, identifier) ==
    LET below == {path \in self.opened :
                     /\ Len(path) >= Len(identifier)
                     /\ SubSeq(path, 1, Len(identifier)) = identifier}
    IN  Returns([self EXCEPT !.opened = @ \ below], identifier \in self.opened)

\* TreeState::close (HashSet::remove returns whether the value was present)
close(self, identifier) ==
    Returns([self EXCEPT !.opened = @ \ {identifier}], identifier \in self.opened)

\* mutant: toggle opens and never closes
toggle_open_only(self, identifier) ==
    IF identifier = <<>>
    THEN Returns(self, FALSE)
    ELSE open(self, identifier)

\* TreeState::toggle
toggle(self, identifier) ==
    IF identifier = <<>>
    THEN Returns(self, FALSE)
    ELSE IF identifier \in self.opened
         THEN close(self, identifier)
         ELSE open(self, identifier)

\* mutant: no early return after the removal, the selection is opened again
toggle_selected_reopens(self) ==
    IF self.selected = <<>>
    THEN Returns(self, FALSE)
    ELSE LET flagged == [self EXCEPT !.ensure_selected_in_view_on_next_render = TRUE]
         IN  Returns([flagged EXCEPT !.opened = @ \cup {flagged.selected}], TRUE)

\* TreeState::toggle_selected
toggle_selected(self) ==
    IF self.selected = <<>>
    THEN Returns(self, FALSE)
    ELSE LET flagged == [self EXCEPT !.ensure_selected_in_view_on_next_render = TRUE]
             was_open == flagged.selected \in flagged.opened
             removed == [flagged EXCEPT !.opened = @ \ {flagged.selected}]
         IN  IF was_open
             THEN Returns(removed, TRUE)
             ELSE open(removed, removed.selected)

\* TreeState::close_all
close_all(self) ==
    IF self.opened = {}
    THEN Returns(self, FALSE)
    ELSE Returns([self EXCEPT !.opened = {}], TRUE)

\* Vec::first / Vec::last / Vec::get followed by cloned().unwrap_or_default()
get_or_default(identifiers, index) ==
    IF index < Len(identifiers) THEN identifiers[index + 1] ELSE <<>>

\* TreeState::select_first
select_first(self) ==
    LET identifier == get_or_default(self.last_identifiers, 0)
    IN  select(self, identifier)

\* mutant: select_last looks for the last identifier whose ancestors are open
select_last_visible(self) ==
    LET visible == SelectSeq(self.last_identifiers,
                             LAMBDA path : \A n \in 1..(Len(path) - 1) :
                                               SubSeq(path, 1, n) \in self.opened)
    IN  select(self, IF visible = <<>> THEN <<>> ELSE visible[Len(visible)])

\* TreeState::select_last
select_last(self) ==
    LET new_identifier ==
            IF self.last_identifiers = <<>> THEN <<>>
            ELSE self.last_identifiers[Len(self.last_identifiers)]
    IN  select(self, new_identifier)

\* Iterator::position: the index of the first element equal to identifier
position_of(identifiers, identifier) ==
    LET hits == {i \in 0..(Len(identifiers) - 1) : identifiers[i + 1] = identifier}
    IN  IF hits = {} THEN None
        ELSE Some(CHOOSE i \in hits : \A j \in hits : i <= j)

\* the values Option<usize> takes as the current index of select_relative
OptionIndex(self) ==
    {None} \cup {Some(i) : i \in 0..Len(self.last_identifiers)}

\* mutant: the new index is not clamped to last_biggest_index
select_relative_unclamped(self, change_function) ==
    LET identifiers == self.last_identifiers
        current_index == position_of(identifiers, self.selected)
        new_index == change_function[current_index]
    IN  select(self, get_or_default(identifiers, new_index))

\* TreeState::select_relative; change_function is a function on OptionIndex
select_relative(self, change_function) ==
    LET identifiers == self.last_identifiers
        current_identifier == self.selected
        current_index == position_of(identifiers, current_identifier)
        new_index == Min(change_function[current_index], self.last_biggest_index)
        new_identifier == get_or_default(identifiers, new_index)
    IN  select(self, new_identifier)

\* mutant: the search runs from the top, without rev()
rendered_at_first_hit(self, position) ==
    IF ~contains(self.last_area, position)
    THEN None
    ELSE LET rows == self.last_rendered_identifiers
             hits == {i \in 1..Len(rows) : position.y >= rows[i][1]}
         IN  IF hits = {} THEN None
             ELSE Some(rows[CHOOSE i \in hits : \A j \in hits : i <= j][2])

\* TreeState::rendered_at
rendered_at(self, position) ==
    IF ~contains(self.last_area, position)
    THEN None
    ELSE LET rows == self.last_rendered_identifiers
             hits == {i \in 1..Len(rows) : position.y >= rows[i][1]}
         IN  IF hits = {} THEN None
             ELSE Some(rows[CHOOSE i \in hits : \A j \in hits : j <= i][2])

\* TreeState::click_at
click_at(self, position) ==
    LET found == rendered_at(self, position)
    IN  IF found # None
        THEN IF found[1] = self.selected
             THEN toggle_selected(self)
             ELSE select(self, found[1])
        ELSE Returns(self, FALSE)

\* TreeState::scroll_selected_into_view
scroll_selected_into_view(self) ==
    [self EXCEPT !.ensure_selected_in_view_on_next_render = TRUE]

\* mutant: scroll_up answers whether it was asked to scroll at all
scroll_up_reports_lines(self, lines) ==
    Returns([self EXCEPT !.offset = saturating_sub(self.offset, lines)], lines # 0)

\* TreeState::scroll_up
scroll_up(self, lines) ==
    LET before == self.offset
        after == saturating_sub(self.offset, lines)
    IN  Returns([self EXCEPT !.offset = after], before # after)

\* mutant: scrolling away gives up the request to show the selection
scroll_down_clears_flag(self, lines) ==
    LET before == self.offset
        after == Min(saturating_add(self.offset, lines), self.last_biggest_index)
    IN  Returns([self EXCEPT !.offset = after,
                             !.ensure_selected_in_view_on_next_render = FALSE],
                before # after)

\* TreeState::scroll_down
scroll_down(self, lines) ==
    LET before == self.offset
        after == Min(saturating_add(self.offset, lines), self.last_biggest_index)
    IN  Returns([self EXCEPT !.offset = after], before # after)

\* mutant: with no current index key_up falls back to the start
key_up_from_start(self) ==
    select_relative(self,
        [current \in OptionIndex(self) |->
            IF current = None THEN 0 ELSE saturating_sub(current[1], 1)])

\* TreeState::key_up
key_up(self) ==
    select_relative(self,
        [current \in OptionIndex(self) |->
            IF current = None THEN UsizeMax ELSE saturating_sub(current[1], 1)])

\* TreeState::key_down
key_down(self) ==
    select_relative(self,
        [current \in OptionIndex(self) |->
            IF current = None THEN 0 ELSE saturating_add(current[1], 1)])

\* mutant: the last segment is dropped also after the selection was closed
key_left_close_and_pop(self) ==
    LET flagged == [self EXCEPT !.ensure_selected_in_view_on_next_render = TRUE]
        changed == flagged.selected \in flagged.opened
        removed == [flagged EXCEPT !.opened = @ \ {flagged.selected}]
        rest == IF removed.selected = <<>> THEN <<>>
                ELSE SubSeq(removed.selected, 1, Len(removed.selected) - 1)
    IN  Returns([removed EXCEPT !.selected = rest], changed \/ removed.selected # <<>>)

\* mutant: key_left closes the selection and never moves to the parent
key_left_close_only(self) ==
    LET flagged == [self EXCEPT !.ensure_selected_in_view_on_next_render = TRUE]
        changed == flagged.selected \in flagged.opened
        removed == [flagged EXCEPT !.opened = @ \ {flagged.selected}]
    IN  Returns(removed, changed)

\* TreeState::key_left
key_left(self) ==
    LET flagged == [self EXCEPT !.ensure_selected_in_view_on_next_render = TRUE]
        changed == flagged.selected \in flagged.opened
        removed == [flagged EXCEPT !.opened = @ \ {flagged.selected}]
    IN  IF ~changed
        THEN LET popped == IF removed.selected = <<>> THEN None
                           ELSE Some(removed.selected[Len(removed.selected)])
                 rest == IF removed.selected = <<>> THEN <<>>
                         ELSE SubSeq(removed.selected, 1, Len(removed.selected) - 1)
             IN  Returns([removed EXCEPT !.selected = rest], popped # None)
        ELSE Returns(removed, changed)

\* mutant: key_right closes a selection that is open
key_right_toggle(self) ==
    IF self.selected = <<>>
    THEN Returns(self, FALSE)
    ELSE toggle([self EXCEPT !.ensure_selected_in_view_on_next_render = TRUE],
                self.selected)

\* TreeState::key_right
key_right(self) ==
    IF self.selected = <<>>
    THEN Returns(self, FALSE)
    ELSE open([self EXCEPT !.ensure_selected_in_view_on_next_render = TRUE],
              self.selected)


----------------------------------------------------------------------------
(* Tree::render: the windowing of src/src/lib.rs and the bookkeeping of     *)
(* the last render that TreeState keeps                                     *)

\* mutant: a selection that is not among the visible nodes counts as the
\* index after the last node
selected_index_past_end(visible, selected_identifier) ==
    IF selected_identifier = <<>>
    THEN 0
    ELSE LET found == position_of([i \in 1..Len(visible) |-> visible[i].identifier],
                                  selected_identifier)
         IN  IF found = None THEN Len(visible) ELSE found[1]

\* selected_index of render: 0 when nothing is selected or the selection is
\* not among the visible nodes
selected_index(visible, selected_identifier) ==
    IF selected_identifier = <<>>
    THEN 0
    ELSE LET found == position_of([i \in 1..Len(visible) |-> visible[i].identifier],
                                  selected_identifier)
         IN  IF found = None THEN 0 ELSE found[1]

\* for item in visible.iter().skip(start): count the nodes that fit
RECURSIVE accumulate(_, _, _, _)
accumulate(visible, end, height, available_height) ==
    IF end >= Len(visible)
    THEN [end |-> end, height |-> height]
    ELSE IF height + visible[end + 1].height > available_height
         THEN [end |-> end, height |-> height]
         ELSE accumulate(visible, end + 1, height + visible[end + 1].height,
                         available_height)

\* mutant: an if in place of the while, the front shrinks by one node only
shrink_front_once(visible, start, height, available_height) ==
    IF height > available_height /\ start < Len(visible)
    THEN [start |-> start + 1,
          height |-> saturating_sub(height, visible[start + 1].height),
          panicked |-> FALSE]
    ELSE [start |-> start, height |-> height, panicked |-> FALSE]

\* while height > available_height: drop the first node of the window;
\* visible[start] panics when start is out of bounds
RECURSIVE shrink_front(_, _, _, _)
shrink_front(visible, start, height, available_height) ==
    IF height > available_height
    THEN IF start >= Len(visible)
         THEN [start |-> start, height |-> height, panicked |-> TRUE]
         ELSE shrink_front(visible, start + 1,
                           saturating_sub(height, visible[start + 1].height),
                           available_height)
    ELSE [start |-> start, height |-> height, panicked |-> FALSE]

\* while selected_index >= end: take the next node and shrink at the front;
\* visible[end] panics when end is out of bounds
RECURSIVE grow_to_selected(_, _, _, _, _, _)
grow_to_selected(visible, selected_at, start, end, height, available_height) ==
    IF selected_at >= end
    THEN IF end >= Len(visible)
         THEN [start |-> start, end |-> end, height |-> height, panicked |-> TRUE]
         ELSE LET grown == saturating_add(height, visible[end + 1].height)
                  front == shrink_front(visible, start, grown, available_height)
              IN  IF front.panicked
                  THEN [start |-> front.start, end |-> end + 1,
                        height |-> front.height, panicked |-> TRUE]
                  ELSE grow_to_selected(visible, selected_at, front.start, end + 1,
                                        front.height, available_height)
    ELSE [start |-> start, end |-> end, height |-> height, panicked |-> FALSE]

\* the window [start, end) render draws, and its height
window(visible, state_offset, selected_at, available_height) ==
    LET start == Min(state_offset, selected_at)
        fit == accumulate(visible, start, 0, available_height)
    IN  grow_to_selected(visible, selected_at, start, fit.end, fit.height,
                         available_height)

\* the top row of every node of the window (Corner::TopLeft)
RECURSIVE row_positions(_, _, _, _)
row_positions(visible, start, end, y) ==
    IF start >= end \/ start >= Len(visible)
    THEN <<>>
    ELSE <<[y |-> y, node |-> visible[start + 1]]>>
         \o row_positions(visible, start + 1, end, y + visible[start + 1].height)

\* mutant: a render into an empty inner area returns at once and keeps the
\* bookkeeping of the render before
cache_no_area_keeping_rows(self) == self

\* bookkeeping of a render whose inner area is empty
cache_no_area(self) ==
    [self EXCEPT !.last_area = RectZero, !.last_rendered_identifiers = <<>>]

\* bookkeeping of a render of an empty tree
cache_no_nodes(self, area) ==
    [self EXCEPT !.last_area = area,
                 !.last_rendered_identifiers = <<>>,
                 !.last_biggest_index = 0]

\* bookkeeping of a render that drew the window [start, end)
cache_window(self, visible, start, end, area) ==
    [self EXCEPT
        !.ensure_selected_in_view_on_next_render = FALSE,
        !.last_area = area,
        !.last_biggest_index = saturating_sub(Len(visible), 1),
        !.last_identifiers = [i \in 1..Len(visible) |-> visible[i].identifier],
        !.last_rendered_identifiers =
            LET rows == row_positions(visible, start, end, area.y)
            IN  [i \in 1..Len(rows) |-> <<rows[i].y, rows[i].node.identifier>>]]

\* the locals of a render call
NoRender ==
    [called |-> FALSE, computed |-> FALSE, node_count |-> 0, identifiers |-> <<>>,
     heights |-> <<>>, start |-> 0, end |-> 0, height |-> 0, panicked |-> FALSE,
     available_height |-> 0, width |-> 0, offset_before |-> 0, ensure |-> FALSE]
Locals(self, visible, computed, w, area) ==
    [called |-> TRUE,
     computed |-> computed,
     node_count |-> Len(visible),
     identifiers |-> [i \in 1..Len(visible) |-> visible[i].identifier],
     heights |-> [i \in 1..Len(visible) |-> visible[i].height],
     start |-> w.start,
     end |-> w.end,
     height |-> w.height,
     panicked |-> w.panicked,
     available_height |-> area.height,
     width |-> area.width,
     offset_before |-> self.offset,
     ensure |-> self.ensure_selected_in_view_on_next_render]

\* mutant: a render that drops a selection it does not find among the nodes
render_dropping_selection(self, items, area) ==
    LET visible == flatten(self.opened, items, <<>>)
        found == position_of([i \in 1..Len(visible) |-> visible[i].identifier],
                             self.selected)
        kept == IF found = None THEN [self EXCEPT !.selected = <<>>] ELSE self
        w == [start |-> 0, end |-> 0, height |-> 0, panicked |-> FALSE]
    IN  [self |-> cache_no_area(kept), rendered |-> Locals(self, visible, FALSE, w, area)]

\* Tree::render (StatefulWidget), area being the inner area
render(self, items, area) ==
    LET visible == flatten(self.opened, items, <<>>)
        nothing == [start |-> 0, end |-> 0, height |-> 0, panicked |-> FALSE]
    IN  IF area.width < 1 \/ area.height < 1
        THEN [self |-> cache_no_area(self),
              rendered |-> Locals(self, visible, FALSE, nothing, area)]
        ELSE IF visible = <<>>
        THEN [self |-> cache_no_nodes(self, area),
              rendered |-> Locals(self, visible, FALSE, nothing, area)]
        ELSE LET available_height == area.height
                 selected_at == selected_index(visible, self.selected)
                 w == window(visible, self.offset, selected_at, available_height)
             IN  IF w.panicked
                 THEN [self |-> self,
                       rendered |-> Locals(self, visible, FALSE, w, area)]
                 ELSE [self |-> cache_window([self EXCEPT !.offset = w.start],
                                             visible, w.start, w.end, area),
                       rendered |-> Locals(self, visible, TRUE, w, area)]


----------------------------------------------------------------------------
(* The widget in use: any sequence of TreeState calls and renders           *)

\* the providers handed to Tree::new between two renders: the tree
\* a, b(c), the one-leaf tree b it may shrink to, and the empty tree
ItemsFull == << new_leaf("a", 1), TreeItem("b", 2, << new_leaf("c", 3) >>) >>
ItemsShrunk == << new_leaf("b", 2) >>
Providers == {ItemsFull, ItemsShrunk, <<>>}

\* identifiers handed to select, open, close and toggle
Paths == {<<"a">>, <<"b">>, <<"b", "c">>}
Identifiers == Paths \cup {<<>>}

\* inner areas handed to render, clicked positions, scrolled lines
Areas == {Rect(0, 1, 4, h) : h \in 0..MaxRows} \cup {Rect(0, 1, 0, MaxRows)}
Positions == {Position(0, y) : y \in 0..(MaxRows + 1)} \cup {Position(4, 1)}
Lines == {0, 1, 2, UsizeMax}

IdleFlatten ==
    /\ tree_items = <<>>
    /\ f_open = {}
    /\ f_nodes = None
    /\ f_generic = None
    /\ f_flattened = None
    /\ f_height = None

IdleConstruct ==
    /\ c_item = None
    /\ c_args = None
    /\ c_result = None

IdleJson ==
    /\ json = None
    /\ j_open = {}
    /\ j_nodes = None

IdleResolve ==
    /\ r_path = None
    /\ r_found = None
    /\ r_buffer = <<>>

IdleDraw == d_rows = <<>>

\* the variables take the fields of a TreeState value
Becomes(self) ==
    /\ offset' = self.offset
    /\ opened' = self.opened
    /\ selected' = self.selected
    /\ ensure_selected_in_view_on_next_render' = self.ensure_selected_in_view_on_next_render
    /\ last_area' = self.last_area
    /\ last_biggest_index' = self.last_biggest_index
    /\ last_identifiers' = self.last_identifiers
    /\ last_rendered_identifiers' = self.last_rendered_identifiers

Is(self) ==
    /\ offset = self.offset
    /\ opened = self.opened
    /\ selected = self.selected
    /\ ensure_selected_in_view_on_next_render = self.ensure_selected_in_view_on_next_render
    /\ last_area = self.last_area
    /\ last_biggest_index = self.last_biggest_index
    /\ last_identifiers = self.last_identifiers
    /\ last_rendered_identifiers = self.last_rendered_identifiers

\* a call of a TreeState method
Call(name, result) ==
    /\ Becomes(result.self)
    /\ op' = name
    /\ ret' = result.ret
    /\ rendered' = NoRender
    /\ UNCHANGED <<flatten_vars, construct_vars, json_vars, resolve_vars, draw_vars>>

Init ==
    /\ Is(default)
    /\ op = "default"
    /\ ret = FALSE
    /\ rendered = NoRender
    /\ IdleFlatten
    /\ IdleConstruct
    /\ IdleJson
    /\ IdleResolve
    /\ IdleDraw

Select == \E identifier \in Identifiers : Call("select", select(State, identifier))
Open == \E identifier \in Identifiers : Call("open", open(State, identifier))
Close == \E identifier \in Identifiers : Call("close", close(State, identifier))
Toggle == \E identifier \in Identifiers : Call("toggle", toggle(State, identifier))
ToggleSelected == Call("toggle_selected", toggle_selected(State))
CloseAll == Call("close_all", close_all(State))
SelectFirst == Call("select_first", select_first(State))
SelectLast == Call("select_last", select_last(State))
ClickAt == \E position \in Positions : Call("click_at", click_at(State, position))
ScrollSelectedIntoView ==
    Call("scroll_selected_into_view", Returns(scroll_selected_into_view(State), FALSE))
ScrollUp == \E lines \in Lines : Call("scroll_up", scroll_up(State, lines))
ScrollDown == \E lines \in Lines : Call("scroll_down", scroll_down(State, lines))
KeyUp == Call("key_up", key_up(State))
KeyDown == Call("key_down", key_down(State))
KeyLeft == Call("key_left", key_left(State))
KeyRight == Call("key_right", key_right(State))

Render ==
    \E provider \in Providers, area \in Areas :
        LET result == render(State, provider, area)
        IN  /\ Becomes(result.self)
            /\ op' = "render"
            /\ ret' = FALSE
            /\ rendered' = result.rendered
            /\ UNCHANGED <<flatten_vars, construct_vars, json_vars, resolve_vars, draw_vars>>

Next ==
    \/ Select
    \/ Open
    \/ Close
    \/ Toggle
    \/ ToggleSelected
    \/ CloseAll
    \/ SelectFirst
    \/ SelectLast
    \/ ClickAt
    \/ ScrollSelectedIntoView
    \/ ScrollUp
    \/ ScrollDown
    \/ KeyUp
    \/ KeyDown
    \/ KeyLeft
    \/ KeyRight
    \/ Render

Spec == Init /\ [][Next]_vars


----------------------------------------------------------------------------
(* The windowing of render on its own: a list of top-level nodes of any     *)
(* heights, rendered from any offset, selection and flag                    *)

\* heights of the nodes: one row, two rows, and more rows than any area has
WindowHeights == {1, 2, MaxRows + 1}
\* the providers: item i of a list has the identifier i
WindowProviders ==
    UNION {{[i \in 1..n |-> new_leaf(i, heights[i])] : heights \in [1..n -> WindowHeights]}
           : n \in 0..MaxNodes}
\* the selection: nothing, a node of the longest list, or a node of no list
WindowSelected == {<<>>} \cup {<<i>> : i \in 1..(MaxNodes + 1)}
WindowOffsets == 0..(MaxNodes + 1)

\* a state the widget reaches with the offset o, the selection s and the flag
\* e: select s, render a list of MaxNodes + 2 one-row nodes, scroll to o,
\* and call scroll_selected_into_view when e is set
WindowStart(o, s, e) ==
    LET long == [i \in 1..(MaxNodes + 2) |-> new_leaf(i, 1)]
        picked == select(default, s).self
        drawn == render(picked, long, Rect(0, 1, 4, MaxRows)).self
        top == scroll_up(drawn, UsizeMax).self
        scrolled == scroll_down(top, o).self
    IN  IF e THEN scroll_selected_into_view(scrolled) ELSE scrolled

WindowInit ==
    /\ \E o \in WindowOffsets, s \in WindowSelected, e \in BOOLEAN :
          Is(WindowStart(o, s, e))
    /\ op = "default"
    /\ ret = FALSE
    /\ rendered = NoRender
    /\ tree_items \in WindowProviders
    /\ f_open = {}
    /\ f_nodes = None
    /\ f_generic = None
    /\ f_flattened = None
    /\ f_height = None
    /\ IdleConstruct
    /\ IdleJson
    /\ IdleResolve
    /\ IdleDraw

WindowRender ==
    \E area \in Areas :
        LET result == render(State, tree_items, area)
        IN  /\ Becomes(result.self)
            /\ op' = "render"
            /\ ret' = FALSE
            /\ rendered' = result.rendered
            /\ UNCHANGED <<flatten_vars, construct_vars, json_vars, resolve_vars, draw_vars>>

WindowNext == WindowRender

SpecWindow == WindowInit /\ [][WindowNext]_vars


----------------------------------------------------------------------------
(* The flattening on its own: the three flatten functions applied to a      *)
(* tree and an open-set                                                     *)

\* a tree whose keys repeat under different parents: a(a(a), b), b
Repeated ==
    << TreeItem("a", 2,
           << TreeItem("a", 1, << new_leaf("a", 3) >>),
              new_leaf("b", 1) >>),
       new_leaf("b", 1) >>

FlattenProviders == {example, Repeated, <<>>}

\* the identifiers of all nodes of a tree
RECURSIVE AllPaths(_, _)
AllPaths(items, current) ==
    UNION {LET path == Append(current, items[i].identifier)
           IN  {path} \cup AllPaths(items[i].children, path)
           : i \in 1..Len(items)}

\* the open-sets: any identifiers of the tree and one that names no node
FlattenOpenSets(items) == SUBSET (AllPaths(items, <<>>) \cup {<<"z">>})

FlattenInit ==
    /\ Is(default)
    /\ op = "default"
    /\ ret = FALSE
    /\ rendered = NoRender
    /\ tree_items \in FlattenProviders
    /\ f_open \in FlattenOpenSets(tree_items)
    /\ f_nodes = None
    /\ f_generic = None
    /\ f_flattened = None
    /\ f_height = None
    /\ IdleConstruct
    /\ IdleJson
    /\ IdleResolve
    /\ IdleDraw

FlattenNodes ==
    /\ f_nodes' = Some(flatten(f_open, tree_items, <<>>))
    /\ UNCHANGED <<state_vars, ghost_vars, tree_items, f_open, f_generic, f_flattened,
                   f_height, construct_vars, json_vars, resolve_vars, draw_vars>>

FlattenGeneric ==
    /\ f_generic' = Some(generic_flatten(f_open, tree_items, <<>>))
    /\ UNCHANGED <<state_vars, ghost_vars, tree_items, f_open, f_nodes, f_flattened,
                   f_height, construct_vars, json_vars, resolve_vars, draw_vars>>

FlattenItems ==
    /\ f_flattened' = Some(flatten_items(f_open, tree_items, <<>>))
    /\ UNCHANGED <<state_vars, ghost_vars, tree_items, f_open, f_nodes, f_generic,
                   f_height, construct_vars, json_vars, resolve_vars, draw_vars>>

FlattenHeight ==
    /\ f_height' = Some(total_required_height(f_open, tree_items, <<>>))
    /\ UNCHANGED <<state_vars, ghost_vars, tree_items, f_open, f_nodes, f_generic,
                   f_flattened, construct_vars, json_vars, resolve_vars, draw_vars>>

FlattenNext ==
    \/ FlattenNodes
    \/ FlattenGeneric
    \/ FlattenItems
    \/ FlattenHeight

SpecFlatten == FlattenInit /\ [][FlattenNext]_vars


----------------------------------------------------------------------------
(* The drawing of render: the highlight symbol, the indentation and the     *)
(* symbol in front of the text of every node of the window                  *)

\* the symbols of Tree::new, each two cells wide: an arrow to the right and
\* a space, an arrow down and a space, two spaces
node_closed_symbol == "> "
node_open_symbol == "v "
node_no_children_symbol == "  "
\* the highlight symbols a Tree is built with: the one of Tree::new and ">> "
HighlightSymbols == {"", ">> "}

\* Buffer::set_stringn as render calls it, the buffer being the area: the
\* string is written from x up to max_width cells and up to the right edge,
\* the result is the x after the last cell written
set_stringn(x, string_width, max_width, right) ==
    x + Min(string_width, Min(max_width, saturating_sub(right, x)))

\* mutant: an identifier of the open-set gets the open symbol, children or not
node_symbol_open_first(node, open_identifiers) ==
    IF node.identifier \in open_identifiers
    THEN node_open_symbol
    ELSE IF ~node.has_children
         THEN node_no_children_symbol
         ELSE node_closed_symbol

\* the symbol in front of a node
node_symbol(node, open_identifiers) ==
    IF ~node.has_children
    THEN node_no_children_symbol
    ELSE IF node.identifier \in open_identifiers
         THEN node_open_symbol
         ELSE node_closed_symbol

\* the body of the for loop that draws: one node drawn at the row y
draw_node(self, node, y, area, highlight_symbol) ==
    LET x == area.x
        right == area.x + area.width
        has_selection == self.selected # <<>>
        is_selected == self.selected = node.identifier
        after_highlight_symbol_x ==
            IF has_selection
            THEN set_stringn(x, Len(highlight_symbol), area.width, right)
            ELSE x
        indent_width == depth(node) * 2
        after_indent_x ==
            set_stringn(after_highlight_symbol_x, indent_width, indent_width, right)
        symbol == node_symbol(node, self.opened)
        max_width == saturating_sub(area.width, after_indent_x - x)
        after_depth_x == set_stringn(after_indent_x, Len(symbol), max_width, right)
    IN  [identifier |-> node.identifier,
         y |-> y,
         is_selected |-> is_selected,
         after_highlight_symbol_x |-> after_highlight_symbol_x,
         indent_width |-> indent_width,
         after_indent_x |-> after_indent_x,
         symbol |-> symbol,
         after_depth_x |-> after_depth_x]

\* for item in visible.iter().skip(state.offset).take(end - start)
draw(self, visible, start, end, area, highlight_symbol) ==
    LET rows == row_positions(visible, start, end, area.y)
    IN  [i \in 1..Len(rows) |->
             draw_node(self, rows[i].node, rows[i].y, area, highlight_symbol)]

\* the trees drawn, the selections and the inner areas; the second area is
\* too narrow for the symbol of a node of depth 2
DrawProviders == {example, Repeated}
DrawSelected == {<<>>, <<"b">>, <<"b", "d", "e">>, <<"a", "a">>}
DrawAreas == {Rect(0, 0, 14, 6), Rect(0, 1, 4, MaxRows), Rect(0, 0, 14, 0)}

DrawInit ==
    /\ tree_items \in DrawProviders
    /\ \E open_set \in FlattenOpenSets(tree_items), s \in DrawSelected :
          Is(select([default EXCEPT !.opened = open_set], s).self)
    /\ op = "default"
    /\ ret = FALSE
    /\ rendered = NoRender
    /\ f_open = {}
    /\ f_nodes = None
    /\ f_generic = None
    /\ f_flattened = None
    /\ f_height = None
    /\ IdleConstruct
    /\ IdleJson
    /\ IdleResolve
    /\ IdleDraw

DrawRender ==
    \E area \in DrawAreas, highlight_symbol \in HighlightSymbols :
        LET result == render(State, tree_items, area)
            visible == flatten(State.opened, tree_items, <<>>)
        IN  /\ Becomes(result.self)
            /\ op' = "render"
            /\ ret' = FALSE
            /\ rendered' = result.rendered
            /\ d_rows' = IF result.rendered.computed
                         THEN draw(result.self, visible, result.rendered.start,
                                   result.rendered.end, area, highlight_symbol)
                         ELSE <<>>
            /\ UNCHANGED <<flatten_vars, construct_vars, json_vars, resolve_vars>>

DrawNext == DrawRender

SpecDraw == DrawInit /\ [][DrawNext]_vars


----------------------------------------------------------------------------
(* The construction of items: new_leaf, TreeItem::new, Tree::new and        *)
(* add_child in any order, the children taken from the items built before   *)

ItemIdentifiers == {"same", "other"}

\* the levels of children below an item
RECURSIVE Depth(_)
Depth(item) ==
    IF item.children = <<>> THEN 0
    ELSE LET below == {Depth(item.children[i]) : i \in 1..Len(item.children)}
         IN  1 + CHOOSE d \in below : \A e \in below : e <= d

\* the items at hand: fresh leaves and clones of the item held
Pool ==
    {new_leaf(identifier, 1) : identifier \in ItemIdentifiers}
    \cup {item \in {c_item[i] : i \in 1..Len(c_item)} : Depth(item) < MaxDepth}

\* the lists of children handed to TreeItem::new and Tree::new
ChildLists == UNION {[1..n -> Pool] : n \in 0..MaxChildren}

ConstructInit ==
    /\ Is(default)
    /\ op = "default"
    /\ ret = FALSE
    /\ rendered = NoRender
    /\ IdleFlatten
    /\ IdleConstruct
    /\ IdleJson
    /\ IdleResolve
    /\ IdleDraw

\* a constructing call: the item held afterwards, the arguments, the Result
Constructs(name, item, args, result) ==
    /\ op' = name
    /\ c_item' = item
    /\ c_args' = args
    /\ c_result' = result
    /\ UNCHANGED <<state_vars, ret, rendered, flatten_vars, json_vars, resolve_vars, draw_vars>>

ConstructNewLeaf ==
    \E identifier \in ItemIdentifiers :
        Constructs("new_leaf", Some(new_leaf(identifier, 1)),
                   [identifier |-> identifier], None)

ConstructNew ==
    \E identifier \in ItemIdentifiers, children \in ChildLists :
        LET result == new(identifier, 1, children)
        IN  Constructs("new",
                       IF result.ok THEN Some(result.value) ELSE c_item,
                       [identifier |-> identifier, children |-> children],
                       Some(result))

ConstructTree ==
    \E items \in ChildLists :
        Constructs("tree_new", c_item, [children |-> items], Some(tree_new(items)))

ConstructAddChild ==
    /\ c_item # None
    /\ \E child \in Pool :
          LET result == add_child(c_item[1], child)
          IN  Constructs("add_child", Some(result.self),
                         [before |-> c_item[1], child |-> child], Some(result.ret))

ConstructPrerenderedAddChild ==
    /\ c_item # None
    /\ \E child \in Pool :
          LET result == prerendered_add_child(c_item[1], child)
          IN  Constructs("prerendered_add_child", Some(result.self),
                         [before |-> c_item[1], child |-> child], Some(result.ret))

ConstructNext ==
    \/ ConstructNewLeaf
    \/ ConstructNew
    \/ ConstructTree
    \/ ConstructAddChild
    \/ ConstructPrerenderedAddChild

SpecConstruct == ConstructInit /\ [][ConstructNext]_vars


----------------------------------------------------------------------------
(* Properties of the windowing *)

RECURSIVE SumHeights(_, _, _)
SumHeights(heights, from, to) ==
    IF from >= to THEN 0 ELSE heights[from + 1] + SumHeights(heights, from + 1, to)

\* number of nodes the last render drew
RenderedCount == rendered.end - rendered.start

\* C1: after a render into an area of at least one row and one column with
\* ensure_selected_in_view set, a selection that is at index i of the
\* flattened list lies in the window: offset <= i < offset + rendered_count
C1_SelectedInWindow ==
    (/\ op = "render"
     /\ rendered.available_height >= 1
     /\ rendered.width >= 1
     /\ rendered.ensure
     /\ position_of(rendered.identifiers, selected) # None)
    => LET i == position_of(rendered.identifiers, selected)[1]
       IN  offset <= i /\ i < offset + RenderedCount

\* C2: after any render, 0 <= offset <= max(0, node_count - 1), node_count
\* being the length of the list flattened for that render
C2_OffsetClamped ==
    op = "render" => (0 <= offset /\ offset <= Max(0, rendered.node_count - 1))

\* C3: the nodes of the window [start, end) that render draws are together at
\* most as high as the inner area, and they are the nodes drawn
C3_WindowFits ==
    op = "render" =>
        /\ rendered.start <= rendered.end
        /\ rendered.end <= rendered.node_count
        /\ SumHeights(rendered.heights, rendered.start, rendered.end)
               <= rendered.available_height
        /\ rendered.computed =>
               /\ Len(last_rendered_identifiers) = RenderedCount
               /\ \A k \in 1..RenderedCount :
                      /\ last_rendered_identifiers[k][2]
                             = rendered.identifiers[rendered.start + k]
                      /\ last_rendered_identifiers[k][1]
                             + rendered.heights[rendered.start + k]
                             <= last_area.y + last_area.height

\* C3 witness: a render that grew the window at the end to reach the
\* selection and shrank it at the front, and drew a node
C3_Witness ==
    /\ op = "render"
    /\ rendered.computed
    /\ rendered.start > rendered.offset_before
    /\ rendered.end > rendered.start + 1

----------------------------------------------------------------------------
(* Properties of the open-set *)

\* C4: in every state reached from the default TreeState by any sequence of
\* TreeState calls and renders the open-set does not hold the empty (root)
\* identifier, also when a call ran while nothing was selected
C4_RootNeverOpened == <<>> \notin opened

\* C4 witness: key_right or toggle_selected ran while nothing was selected,
\* on a TreeState that has nodes open
C4_Witness ==
    /\ op \in {"key_right", "toggle_selected"}
    /\ selected = <<>>
    /\ opened # {}

\* C10: open(identifier) inserts the identifier and returns true exactly when
\* it is non-empty and was not open; otherwise it returns false and the
\* open-set stays as it was; nothing else of the TreeState changes
C10_OpenContract ==
    [][\A identifier \in Identifiers :
          Call("open", open(State, identifier)) =>
              /\ IF identifier # <<>> /\ identifier \notin opened
                 THEN opened' = opened \cup {identifier} /\ ret' = TRUE
                 ELSE opened' = opened /\ ret' = FALSE
              /\ UNCHANGED <<offset, selected, ensure_selected_in_view_on_next_render,
                             last_area, last_biggest_index, last_identifiers,
                             last_rendered_identifiers>>]_vars

\* C10 witness: open returned true for the identifier b/c, a leaf below the
\* closed node b, while no node of any tree is known to the TreeState
C10_Witness ==
    /\ op = "open"
    /\ ret = TRUE
    /\ opened = {<<"b", "c">>}
    /\ last_identifiers = <<>>

----------------------------------------------------------------------------
(* Properties of the flattening *)

\* the identifiers of a flattened list, in its order
IdentifiersOf(nodes) == [i \in 1..Len(nodes) |-> nodes[i].identifier]

\* the identifiers of the ancestors of a node, the node itself left out
ProperAncestors(path) == {SubSeq(path, 1, k) : k \in 1..(Len(path) - 1)}

IsProperPrefix(short, long) ==
    Len(short) < Len(long) /\ SubSeq(long, 1, Len(short)) = short

\* the children of the node a path names; <<>> when it names no node
RECURSIVE ChildrenAt(_, _)
ChildrenAt(items, path) ==
    IF path = <<>> THEN items
    ELSE LET hits == {i \in 1..Len(items) : items[i].identifier = Head(path)}
         IN  IF hits = {} THEN <<>>
             ELSE ChildrenAt(items[CHOOSE i \in hits : TRUE].children, Tail(path))

\* the position of every node on the way to a path among its siblings
RECURSIVE SiblingIndices(_, _)
SiblingIndices(items, path) ==
    IF path = <<>> THEN <<>>
    ELSE LET i == CHOOSE i \in 1..Len(items) : items[i].identifier = Head(path)
         IN  <<i>> \o SiblingIndices(items[i].children, Tail(path))

\* a comes before b in depth-first pre-order
PreOrderBefore(a, b) ==
    \/ IsProperPrefix(a, b)
    \/ \E k \in 1..Min(Len(a), Len(b)) :
          /\ SubSeq(a, 1, k - 1) = SubSeq(b, 1, k - 1)
          /\ a[k] < b[k]

\* C5: a node is in flatten(open_set, items) exactly when every proper
\* ancestor of it is in open_set, so nothing below a closed node is listed,
\* whatever is marked open below it; no node is listed twice
C5_ClosedSubtreeExcluded ==
    f_nodes # None =>
        LET shown == {f_nodes[1][i].identifier : i \in 1..Len(f_nodes[1])}
            paths == AllPaths(tree_items, <<>>)
        IN  /\ shown \subseteq paths
            /\ Cardinality(shown) = Len(f_nodes[1])
            /\ \A path \in paths :
                   path \in shown <=> ProperAncestors(path) \subseteq f_open
            /\ \A closed \in paths \ f_open :
                   \A path \in shown : ~IsProperPrefix(closed, path)

\* C5 witness: the example tree flattened with a and b/d open but b closed
C5_Witness ==
    /\ f_nodes # None
    /\ tree_items = example
    /\ f_open = {<<"a">>, <<"b", "d">>}
    /\ Len(f_nodes[1]) = 3

\* the order of a flattened list, given the identifier, the depth and the
\* identifier of the first child (<<>> for a leaf) of each of its nodes
FlattenOrder(identifiers, depths, first_child) ==
    /\ identifiers # <<>> => depths[1] = 0
    /\ \A k \in 1..(Len(identifiers) - 1) :
           \/ /\ depths[k + 1] = depths[k] + 1
              /\ identifiers[k] \in f_open
              /\ first_child[k] # <<>>
              /\ identifiers[k + 1] = first_child[k]
           \/ depths[k + 1] <= depths[k]
    /\ \A k \in 1..Len(identifiers) :
           LET below == {j \in 1..Len(identifiers) :
                            IsProperPrefix(identifiers[k], identifiers[j])}
           IN  below = (k + 1)..(k + Cardinality(below))

\* C6: in a flattened list the first node has depth 0, a node of depth d is
\* followed by its first child at depth d + 1 (only when it is open and has
\* children) or by a node of depth <= d, and the listed descendants of a node
\* are one block directly after it
C6_FlattenOrder ==
    /\ f_flattened # None =>
           LET list == f_flattened[1]
           IN  FlattenOrder(IdentifiersOf(list),
                   [i \in 1..Len(list) |-> flattened_depth(list[i])],
                   [i \in 1..Len(list) |->
                       IF list[i].has_no_children THEN <<>>
                       ELSE Append(list[i].identifier,
                                   list[i].item.children[1].identifier)])
    /\ f_nodes # None =>
           LET list == f_nodes[1]
           IN  FlattenOrder(IdentifiersOf(list),
                   [i \in 1..Len(list) |-> depth(list[i])],
                   [i \in 1..Len(list) |->
                       IF ~list[i].has_children THEN <<>>
                       ELSE Append(list[i].identifier,
                                   ChildrenAt(tree_items, list[i].identifier)[1].identifier)])

\* C6 witness: the tree a(a(a), b), b flattened with a and a/a open
C6_Witness ==
    /\ f_flattened # None
    /\ f_nodes # None
    /\ tree_items = Repeated
    /\ f_open = {<<"a">>, <<"a", "a">>}
    /\ Len(f_flattened[1]) = 5

\* what C7 says of one flattened list, given its identifiers and depths
PreOrder(identifiers, depths) ==
    /\ f_open = {} =>
           identifiers = [i \in 1..Len(tree_items) |-> <<tree_items[i].identifier>>]
    /\ \A i, j \in 1..Len(identifiers) :
           i < j => PreOrderBefore(SiblingIndices(tree_items, identifiers[i]),
                                   SiblingIndices(tree_items, identifiers[j]))
    /\ \A i \in 1..Len(identifiers) : depths[i] = Len(identifiers[i]) - 1
    /\ (tree_items = example /\ f_open = {}) =>
           identifiers = << <<"a">>, <<"b">>, <<"h">> >>
    /\ (tree_items = example /\ f_open = {<<"b">>}) =>
           identifiers = << <<"a">>, <<"b">>, <<"b", "c">>, <<"b", "d">>,
                            <<"b", "g">>, <<"h">> >>
    /\ (tree_items = example /\ f_open = {<<"b">>, <<"b", "d">>}) =>
           /\ identifiers = << <<"a">>, <<"b">>, <<"b", "c">>, <<"b", "d">>,
                               <<"b", "d", "e">>, <<"b", "d", "f">>,
                               <<"b", "g">>, <<"h">> >>
           /\ depths = <<0, 0, 1, 1, 2, 2, 1, 0>>

\* C7: flatten lists siblings in the order of the provider, depth-first in
\* pre-order; an empty open-set gives the top-level nodes; an open-set entry
\* that names a leaf adds no node; the example tree gives [a, b, h] for {},
\* [a, b, c, d, g, h] for {b} and all eight nodes with the depths
\* [0, 0, 1, 1, 2, 2, 1, 0] for {b, b/d}
C7_PreOrder ==
    /\ f_generic # None =>
           /\ PreOrder(IdentifiersOf(f_generic[1]),
                       [i \in 1..Len(f_generic[1]) |-> f_generic[1][i].depth])
           /\ \A path \in f_open :
                  ChildrenAt(tree_items, path) = <<>> =>
                      generic_flatten(f_open \ {path}, tree_items, <<>>) = f_generic[1]
    /\ f_nodes # None =>
           /\ PreOrder(IdentifiersOf(f_nodes[1]),
                       [i \in 1..Len(f_nodes[1]) |-> depth(f_nodes[1][i])])
           /\ \A path \in f_open :
                  ChildrenAt(tree_items, path) = <<>> =>
                      flatten(f_open \ {path}, tree_items, <<>>) = f_nodes[1]

\* C7 witness: the example tree flattened with b, b/d and the leaf b/d/e open
C7_Witness ==
    /\ f_generic # None
    /\ f_nodes # None
    /\ tree_items = example
    /\ f_open = {<<"b">>, <<"b", "d">>, <<"b", "d", "e">>}
    /\ Len(f_generic[1]) = 8

----------------------------------------------------------------------------
(* Properties of the construction *)

\* two items of a list share an identifier
HasDuplicates(items) ==
    \E i, j \in 1..Len(items) : i < j /\ items[i].identifier = items[j].identifier

\* the children of an item and of everything below it have identifiers that
\* differ from those of their siblings
RECURSIVE UniqueSiblings(_)
UniqueSiblings(item) ==
    /\ ~HasDuplicates(item.children)
    /\ \A i \in 1..Len(item.children) : UniqueSiblings(item.children[i])

\* C8: TreeItem::new and Tree::new return the AlreadyExists error, and no
\* item, exactly when two of the given children share an identifier;
\* otherwise they return the parent holding the children in the given order
C8_NewContract ==
    /\ op = "new" =>
           IF HasDuplicates(c_args.children)
           THEN c_result = Some(Err("AlreadyExists"))
           ELSE /\ c_result[1].ok
                /\ c_result[1].value.identifier = c_args.identifier
                /\ c_result[1].value.children = c_args.children
                /\ c_item = Some(c_result[1].value)
    /\ op = "tree_new" =>
           IF HasDuplicates(c_args.children)
           THEN c_result = Some(Err("AlreadyExists"))
           ELSE /\ c_result[1].ok
                /\ c_result[1].value.items = c_args.children

\* C8 witness: TreeItem::new failed for two children that share the
\* identifier and differ in their own children
C8_Witness ==
    /\ op = "new"
    /\ Len(c_args.children) = 2
    /\ c_args.children[1].identifier = c_args.children[2].identifier
    /\ c_args.children[1] # c_args.children[2]
    /\ ~c_result[1].ok

\* C9: add_child fails with AlreadyExists and leaves the children as they
\* were when a child of that identifier exists, and appends the child as the
\* last one otherwise; so after any new_leaf, new and add_child calls the
\* children of every item have pairwise different identifiers
C9_AddChildContract ==
    /\ op \in {"add_child", "prerendered_add_child"} =>
           IF \E i \in 1..Len(c_args.before.children) :
                  c_args.before.children[i].identifier = c_args.child.identifier
           THEN /\ c_result = Some(Err("AlreadyExists"))
                /\ c_item = Some(c_args.before)
           ELSE /\ c_result = Some(Ok(<<>>))
                /\ c_item[1].identifier = c_args.before.identifier
                /\ c_item[1].children = Append(c_args.before.children, c_args.child)
    /\ c_item # None => UniqueSiblings(c_item[1])
    /\ (op \in {"new", "tree_new"} /\ c_result[1].ok) =>
           LET built == IF op = "new" THEN c_result[1].value.children
                        ELSE c_result[1].value.items
           IN  /\ ~HasDuplicates(built)
               /\ \A i \in 1..Len(built) : UniqueSiblings(built[i])

\* C9 witness: add_child failed on an item that holds two children, the
\* second of which has the identifier of the child given
C9_Witness ==
    /\ op = "add_child"
    /\ ~c_result[1].ok
    /\ Len(c_item[1].children) = 2
    /\ c_item[1].children[2].identifier = c_args.child.identifier
    /\ c_item[1].children[2] # c_args.child

----------------------------------------------------------------------------
(* Properties of the TreeState methods *)

\* C11: close(identifier) removes that identifier alone from the open-set,
\* the identifiers below it stay, and returns true exactly when it was
\* there; close_all empties the open-set and returns true exactly when it
\* was not empty; nothing else of the TreeState changes
C11_CloseContract ==
    [][/\ \A identifier \in Identifiers :
             Call("close", close(State, identifier)) =>
                 /\ opened' = opened \ {identifier}
                 /\ ret' = (identifier \in opened)
                 /\ UNCHANGED <<offset, selected, ensure_selected_in_view_on_next_render,
                                last_area, last_biggest_index, last_identifiers,
                                last_rendered_identifiers>>
       /\ Call("close_all", close_all(State)) =>
             /\ opened' = {}
             /\ ret' = (opened # {})
             /\ UNCHANGED <<offset, selected, ensure_selected_in_view_on_next_render,
                            last_area, last_biggest_index, last_identifiers,
                            last_rendered_identifiers>>]_vars

\* C11 witness: close returned true and left b/c, which is below b, open
C11_Witness ==
    /\ op = "close"
    /\ ret = TRUE
    /\ opened = {<<"b", "c">>}

\* C12: toggle of a non-empty identifier flips the membership of that
\* identifier alone and returns true; toggle of the empty identifier returns
\* false and changes nothing; toggle twice restores the TreeState
C12_ToggleContract ==
    /\ [][\A identifier \in Identifiers :
             Call("toggle", toggle(State, identifier)) =>
                 /\ IF identifier = <<>>
                    THEN opened' = opened /\ ret' = FALSE
                    ELSE /\ opened' = IF identifier \in opened
                                      THEN opened \ {identifier}
                                      ELSE opened \cup {identifier}
                         /\ ret' = TRUE
                 /\ UNCHANGED <<offset, selected, ensure_selected_in_view_on_next_render,
                                last_area, last_biggest_index, last_identifiers,
                                last_rendered_identifiers>>]_vars
    /\ [](\A identifier \in Identifiers :
             toggle(toggle(State, identifier).self, identifier).self = State)

\* C12 witness: toggle returned true and closed the only open identifier
C12_Witness ==
    /\ op = "toggle"
    /\ ret = TRUE
    /\ opened = {}

\* C13: toggle_selected does to the open-set and returns what
\* toggle(selected) does; with nothing selected it returns false and leaves
\* the TreeState as it was; the selection never changes
C13_ToggleSelectedContract ==
    [][Call("toggle_selected", toggle_selected(State)) =>
          /\ opened' = toggle(State, selected).self.opened
          /\ ret' = toggle(State, selected).ret
          /\ selected' = selected
          /\ selected # <<>> =>
                 /\ ret' = TRUE
                 /\ (selected \in opened') # (selected \in opened)
          /\ selected = <<>> => (ret' = FALSE /\ UNCHANGED state_vars)]_vars

\* C13 witness: toggle_selected returned true and the selection b/c is
\* closed afterwards
C13_Witness ==
    /\ op = "toggle_selected"
    /\ ret = TRUE
    /\ selected = <<"b", "c">>
    /\ selected \notin opened

\* C14: select(identifier) makes the identifier the selection (the empty one
\* clears it), sets ensure_selected_in_view_on_next_render also when the
\* selection stays the same, and returns true exactly when the selection
\* was another one; nothing else of the TreeState changes
C14_SelectContract ==
    [][\A identifier \in Identifiers :
          Call("select", select(State, identifier)) =>
              /\ selected' = identifier
              /\ ensure_selected_in_view_on_next_render' = TRUE
              /\ ret' = (selected # identifier)
              /\ UNCHANGED <<offset, opened, last_area, last_biggest_index,
                             last_identifiers, last_rendered_identifiers>>]_vars

\* C14 witness: select returned false for b/c, which was selected already and
\* is below the closed node b, and the flag is set
C14_Witness ==
    /\ op = "select"
    /\ ret = FALSE
    /\ selected = <<"b", "c">>
    /\ opened = {}
    /\ ensure_selected_in_view_on_next_render

----------------------------------------------------------------------------
(* Properties of the navigation in the list of the last render *)

\* the TreeState and the return value after k key_down calls in a row
RECURSIVE KeyDownTimes(_, _)
KeyDownTimes(self, k) ==
    IF k = 0 THEN Returns(self, FALSE)
    ELSE key_down(KeyDownTimes(self, k - 1).self)

\* C15: after a render that drew a list of N >= 1 nodes with nothing
\* selected, the k-th key_down in a row selects the node at index
\* min(k - 1, N - 1) of that list; a key_down with the last node selected
\* returns false and leaves the selection as it is
C15_KeyDownWalk ==
    (op = "render" /\ rendered.computed /\ selected = <<>>) =>
        LET N == rendered.node_count
        IN  \A k \in 1..(N + 2) :
                LET before == KeyDownTimes(State, k - 1)
                    after == KeyDownTimes(State, k)
                IN  /\ after.self.selected = rendered.identifiers[Min(k - 1, N - 1) + 1]
                    /\ before.self.selected = rendered.identifiers[N] =>
                           /\ after.ret = FALSE
                           /\ after.self.selected = before.self.selected
                    /\ k <= N => after.ret = TRUE

\* C15 witness: key_down returned false with the last of three rendered
\* nodes selected
C15_Witness ==
    /\ op = "key_down"
    /\ ret = FALSE
    /\ Len(last_identifiers) = 3
    /\ last_biggest_index = 2
    /\ selected = last_identifiers[3]

\* change functions handed to select_relative: constant ones, the one that
\* keeps the current index, and those of key_up and key_down
ChangeFunctions(self) ==
    {[current \in OptionIndex(self) |-> index] : index \in {0, 1, UsizeMax}}
    \cup {[current \in OptionIndex(self) |->
              IF current = None THEN UsizeMax ELSE current[1]],
          [current \in OptionIndex(self) |->
              IF current = None THEN UsizeMax ELSE saturating_sub(current[1], 1)],
          [current \in OptionIndex(self) |->
              IF current = None THEN 0 ELSE saturating_add(current[1], 1)]}

\* the index of the selection in the list of the last render, or none
CurrentIndex ==
    IF \E i \in 1..Len(last_identifiers) : last_identifiers[i] = selected
    THEN Some((CHOOSE i \in 1..Len(last_identifiers) : last_identifiers[i] = selected) - 1)
    ELSE None

\* what select_relative and key_up do in any state
SelectRelativeContract ==
    /\ selected = <<>> => CurrentIndex = None
    /\ last_identifiers # <<>> => last_biggest_index < Len(last_identifiers)
    /\ \A change_function \in ChangeFunctions(State) :
           LET result == select_relative(State, change_function)
               new_index == Min(change_function[CurrentIndex], last_biggest_index)
           IN  /\ 0 <= new_index /\ new_index <= UsizeMax
               /\ result.self.selected =
                      IF last_identifiers = <<>> THEN <<>>
                      ELSE last_identifiers[new_index + 1]
               /\ result.ret = (result.self.selected # selected)
    /\ CurrentIndex = Some(0) =>
           /\ key_up(State).self.selected = last_identifiers[1]
           /\ key_up(State).ret = FALSE

C17_KeyLeftContract ==
    [][Call("key_left", key_left(State)) =>
          /\ IF selected = <<>>
             THEN ret' = FALSE /\ selected' = selected /\ opened' = opened
             ELSE IF selected \in opened
             THEN ret' = TRUE /\ selected' = selected /\ opened' = opened \ {selected}
             ELSE /\ ret' = TRUE
                  /\ selected' = SubSeq(selected, 1, Len(selected) - 1)
                  /\ opened' = opened
          /\ UNCHANGED <<offset, last_area, last_biggest_index, last_identifiers,
                         last_rendered_identifiers>>]_vars

\* C17 witness: key_left returned true and left nothing selected, with b/c
\* still open
C17_Witness ==
    /\ op = "key_left"
    /\ ret = TRUE
    /\ selected = <<>>
    /\ <<"b", "c">> \in opened

\* C18: key_right inserts the selection into the open-set and returns true
\* exactly when something is selected that was not open; otherwise it
\* returns false and the open-set stays; the selection never changes
C18_KeyRightContract ==
    [][Call("key_right", key_right(State)) =>
          /\ selected' = selected
          /\ IF selected # <<>> /\ selected \notin opened
             THEN opened' = opened \cup {selected} /\ ret' = TRUE
             ELSE opened' = opened /\ ret' = FALSE
          /\ UNCHANGED <<offset, last_area, last_biggest_index, last_identifiers,
                         last_rendered_identifiers>>]_vars

\* C18 witness: key_right returned false for the selection b/c, which is open
C18_Witness ==
    /\ op = "key_right"
    /\ ret = FALSE
    /\ selected = <<"b", "c">>
    /\ selected \in opened

----------------------------------------------------------------------------
(* Properties of the scrolling *)

\* C19: scroll_down(lines) sets offset to min(offset + lines,
\* last_biggest_index) and scroll_up(lines) to max(offset - lines, 0), for
\* any lines without overflow; after either 0 <= offset <=
\* last_biggest_index, and scroll_down never decreases offset
C19_ScrollContract ==
    [][\A lines \in Lines :
          /\ Call("scroll_down", scroll_down(State, lines)) =>
                 /\ offset' = IF lines >= last_biggest_index - offset
                              THEN last_biggest_index
                              ELSE offset + lines
                 /\ 0 <= offset' /\ offset' <= last_biggest_index
                 /\ offset' >= offset
          /\ Call("scroll_up", scroll_up(State, lines)) =>
                 /\ offset' = Max(offset - lines, 0)
                 /\ 0 <= offset' /\ offset' <= last_biggest_index]_vars

\* C20: scroll_down returns true whether or not the offset moved; scroll_up
\* returns true exactly when the offset differs before and after the call
C20_ScrollReturns ==
    [][\A lines \in Lines :
          /\ Call("scroll_down", scroll_down(State, lines)) => ret' = TRUE
          /\ Call("scroll_up", scroll_up(State, lines)) =>
                 ret' = (offset' # offset)]_vars


----------------------------------------------------------------------------
(* The JSON provider on its own: get_nodes of values of every kind, for    *)
(* every open-set over their paths                                          *)

\* the values: scalars, empty containers, the values of the tests, and
\* containers that hold empty containers
JsonValues ==
    {JsonScalar("Null"), JsonScalar("Bool"), JsonScalar("Number"), JsonScalar("String"),
     JsonArray(<<>>),
     JsonObject(<<>>),
     JsonArray(<<JsonScalar("Number"), JsonScalar("Number")>>),
     JsonObject(<< <<"foo", JsonScalar("String")>>, <<"something", JsonScalar("Bool")>> >>),
     JsonObject(<< <<"foo", JsonObject(<< <<"bar", JsonArray(<<JsonScalar("Number"),
                                                              JsonScalar("Number")>>)>> >>)>>,
                   <<"something", JsonArray(<<JsonScalar("Number")>>)>> >>),
     JsonArray(<<JsonArray(<<>>), JsonObject(<<>>),
                 JsonArray(<<JsonObject(<< <<"foo", JsonScalar("Null")>> >>)>>)>>)}

\* the children of a value: selector and value, in the order of iteration
JsonChildren(value) ==
    IF value.kind = "Array"
    THEN [i \in 1..Len(value.array) |->
             [selector |-> ArrayIndex(i - 1), value |-> value.array[i]]]
    ELSE [i \in 1..Len(value.object) |->
             [selector |-> ObjectKey(value.object[i][1]), value |-> value.object[i][2]]]

\* the paths of all values below a value
RECURSIVE JsonPaths(_, _)
JsonPaths(value, current) ==
    UNION {LET path == Append(current, JsonChildren(value)[i].selector)
           IN  {path} \cup JsonPaths(JsonChildren(value)[i].value, path)
           : i \in 1..Len(JsonChildren(value))}

\* the open-sets: any paths of the value, one that names no value, and the
\* path of a scalar root
JsonOpenSets(value) ==
    SUBSET (JsonPaths(value, <<>>) \cup {<<ObjectKey("z")>>, <<SelectorNone>>})

JsonInit ==
    /\ Is(default)
    /\ op = "default"
    /\ ret = FALSE
    /\ rendered = NoRender
    /\ IdleFlatten
    /\ IdleConstruct
    /\ json \in {Some(value) : value \in JsonValues}
    /\ j_open \in JsonOpenSets(json[1])
    /\ j_nodes = None
    /\ IdleResolve
    /\ IdleDraw

JsonGetNodes ==
    /\ j_nodes' = Some(get_nodes(json[1], j_open))
    /\ UNCHANGED <<state_vars, ghost_vars, flatten_vars, construct_vars, json, j_open,
                   resolve_vars, draw_vars>>

JsonNext == JsonGetNodes

SpecJson == JsonInit /\ [][JsonNext]_vars


----------------------------------------------------------------------------
(* The providers resolving paths: a JSON value or a tree of items, its      *)
(* nodes for any open-set, and any path resolved and rendered               *)

\* selectors and keys that continue a path
ProbeSelectors ==
    {ObjectKey("foo"), ObjectKey("z"), ArrayIndex(0), ArrayIndex(9), SelectorNone}
ProbeKeys == {"a", "z"}

\* the paths handed to the provider: the empty path, those of its values or
\* items, and each of them continued by one more selector or key
JsonProbes(value) ==
    LET known == JsonPaths(value, <<>>) \cup {<<>>}
    IN  known \cup {Append(path, selector) : path \in known, selector \in ProbeSelectors}
              \cup {<<SelectorNone, SelectorNone>>}
ItemProbes(items) ==
    LET known == AllPaths(items, <<>>) \cup {<<>>}
    IN  known \cup {Append(path, key) : path \in known, key \in ProbeKeys}

\* the area a node is rendered into
NodeArea == Rect(0, 1, 4, 1)

ResolveInit ==
    /\ Is(default)
    /\ op = "default"
    /\ ret = FALSE
    /\ rendered = NoRender
    /\ IdleConstruct
    /\ IdleResolve
    /\ IdleDraw
    /\ f_nodes = None
    /\ f_generic = None
    /\ f_flattened = None
    /\ f_height = None
    /\ j_nodes = None
    /\ \/ /\ json \in {Some(value) : value \in JsonValues}
          /\ j_open \in JsonOpenSets(json[1])
          /\ tree_items = <<>>
          /\ f_open = {}
       \/ /\ json = None
          /\ j_open = {}
          /\ tree_items \in FlattenProviders
          /\ f_open \in FlattenOpenSets(tree_items)

ResolveJsonNodes ==
    /\ json # None
    /\ JsonGetNodes

ResolveItemNodes ==
    /\ json = None
    /\ FlattenNodes

ResolveJson ==
    /\ json # None
    /\ \E path \in JsonProbes(json[1]) :
           /\ r_path' = Some(path)
           /\ r_found' = json_select(json[1], path)
           /\ r_buffer' = json_render(json[1], path, NodeArea, <<>>)
    /\ UNCHANGED <<state_vars, ghost_vars, flatten_vars, construct_vars, json_vars, draw_vars>>

ResolveItems ==
    /\ json = None
    /\ \E path \in ItemProbes(tree_items) :
           /\ r_path' = Some(path)
           /\ r_found' = get_item(tree_items, path)
           /\ r_buffer' = tree_data_render(tree_items, path, NodeArea, <<>>)
    /\ UNCHANGED <<state_vars, ghost_vars, flatten_vars, construct_vars, json_vars, draw_vars>>

ResolveNext ==
    \/ ResolveJsonNodes
    \/ ResolveItemNodes
    \/ ResolveJson
    \/ ResolveItems

SpecResolve == ResolveInit /\ [][ResolveNext]_vars


----------------------------------------------------------------------------
(* Properties of the value the methods return *)

\* C21: select, open, close, toggle, toggle_selected, close_all,
\* select_first, select_last, select_relative, key_up, key_down, key_left,
\* key_right, scroll_up, scroll_down and click_at return true exactly when
\* the selection, the open-set or the offset differs before and after the call
C21_ReturnsChanged ==
    LET Changed(result) ==
            result.ret = (\/ result.self.selected # selected
                          \/ result.self.opened # opened
                          \/ result.self.offset # offset)
    IN  /\ \A identifier \in Identifiers :
               /\ Changed(select(State, identifier))
               /\ Changed(open(State, identifier))
               /\ Changed(close(State, identifier))
               /\ Changed(toggle(State, identifier))
        /\ Changed(toggle_selected(State))
        /\ Changed(close_all(State))
        /\ Changed(select_first(State))
        /\ Changed(select_last(State))
        /\ \A change_function \in ChangeFunctions(State) :
               Changed(select_relative(State, change_function))
        /\ Changed(key_up(State))
        /\ Changed(key_down(State))
        /\ Changed(key_left(State))
        /\ Changed(key_right(State))
        /\ \A lines \in Lines :
               /\ Changed(scroll_up(State, lines))
               /\ Changed(scroll_down(State, lines))
        /\ \A position \in Positions : Changed(click_at(State, position))

\* C21 witness: select_last returned false with the last of three rendered
\* nodes selected already
C21_Witness ==
    /\ op = "select_last"
    /\ ret = FALSE
    /\ Len(last_identifiers) = 3
    /\ selected = last_identifiers[3]

----------------------------------------------------------------------------
(* Properties of click_at and of the bookkeeping of the last render *)

\* the top row of the node at index i of the list of the last render, for a
\* node of the window that render drew
TopRow(i) == last_area.y + SumHeights(rendered.heights, rendered.start, i)

\* the columns of the last area
Columns == last_area.x..(last_area.x + last_area.width - 1)

\* C22: after a render that drew node p, a click on any row of p selects p
\* and returns true when p is not selected (the open-set stays), and toggles
\* p in the open-set and returns true when p is selected (the selection
\* stays), whatever was selected between the render and the click
C22_ClickSelectsOrToggles ==
    (op = "render" /\ rendered.computed) =>
        \A i \in rendered.start..(rendered.end - 1) :
            LET p == rendered.identifiers[i + 1]
                rows == TopRow(i)..(TopRow(i) + rendered.heights[i + 1] - 1)
            IN  \A y \in rows, x \in Columns, identifier \in Identifiers :
                    LET before == select(State, identifier).self
                        result == click_at(before, Position(x, y))
                    IN  /\ result.ret = TRUE
                        /\ result.self.selected = p
                        /\ result.self.offset = offset
                        /\ IF before.selected # p
                           THEN result.self.opened = opened
                           ELSE result.self.opened =
                                    IF p \in opened THEN opened \ {p}
                                    ELSE opened \cup {p}

\* C22 witness: a click on b, drawn below a and selected, opened it
C22_Witness ==
    /\ op = "click_at"
    /\ ret = TRUE
    /\ selected = <<"b">>
    /\ opened = {<<"b">>}
    /\ last_identifiers = << <<"a">>, <<"b">> >>
    /\ Len(last_rendered_identifiers) = 2

\* the last render drew a node on the row of the position, inside its area
DrawnAt(position) ==
    /\ rendered.computed
    /\ contains(last_area, position)
    /\ position.y < TopRow(rendered.end)

\* click_at answers false and keeps selection, open-set and offset
ClickIgnored(position) ==
    LET result == click_at(State, position)
    IN  /\ result.ret = FALSE
        /\ result.self.selected = selected
        /\ result.self.opened = opened
        /\ result.self.offset = offset

\* C23: click_at returns false and keeps selection, open-set and offset for
\* every position outside the last area, and after a render for every
\* position where that render drew no node, the rows of the area below the
\* last drawn node among them
C23_ClickNothingDrawn ==
    \A position \in Positions :
        /\ ~contains(last_area, position) => ClickIgnored(position)
        /\ (op = "render" /\ ~rendered.panicked /\ ~DrawnAt(position)) =>
               ClickIgnored(position)

\* C24: render changes neither the selection nor the open-set; what it writes
\* is among offset, ensure_selected_in_view_on_next_render and the
\* bookkeeping of the last render
C24_RenderKeepsSelection ==
    [][op' = "render" => UNCHANGED <<selected, opened>>]_vars

\* C24 witness: a render moved the offset to show the selection b/c, which
\* is selected still, with b open still
C24_Witness ==
    /\ op = "render"
    /\ rendered.computed
    /\ offset # rendered.offset_before
    /\ ensure_selected_in_view_on_next_render # rendered.ensure
    /\ selected = <<"b", "c">>
    /\ opened = {<<"b">>}

\* C25: select, scroll_selected_into_view and key_left set
\* ensure_selected_in_view_on_next_render, toggle_selected and key_right set
\* it when something is selected; no call of a method clears it; a render
\* that computes a window clears it, any other render leaves it as it is
C25_EnsureFlag ==
    /\ [](/\ \A identifier \in Identifiers :
                select(State, identifier).self.ensure_selected_in_view_on_next_render
          /\ scroll_selected_into_view(State).ensure_selected_in_view_on_next_render
          /\ key_left(State).self.ensure_selected_in_view_on_next_render
          /\ selected # <<>> =>
                /\ toggle_selected(State).self.ensure_selected_in_view_on_next_render
                /\ key_right(State).self.ensure_selected_in_view_on_next_render
          /\ (op = "render" /\ rendered.computed) =>
                ~ensure_selected_in_view_on_next_render)
    /\ [][/\ op' # "render" =>
                (ensure_selected_in_view_on_next_render =>
                     ensure_selected_in_view_on_next_render')
          /\ op' = "render" =>
                ensure_selected_in_view_on_next_render' =
                    (ensure_selected_in_view_on_next_render /\ ~rendered'.computed)]_vars

\* C25 witness: a render that computed a window found the flag set and
\* cleared it, the offset staying where a scroll had put it
C25_Witness ==
    /\ op = "render"
    /\ rendered.computed
    /\ rendered.ensure
    /\ ~ensure_selected_in_view_on_next_render
    /\ rendered.offset_before > 0
    /\ offset = rendered.offset_before

----------------------------------------------------------------------------
(* Properties of the window when the selection is not to be shown *)

\* C26: a render that computes a window while the flag is clear, nothing is
\* selected or the selection is not in the flattened list starts the window
\* at the offset it found: offset = min(previous offset, last_biggest_index)
C26_PlainWindow ==
    (/\ op = "render"
     /\ rendered.computed
     /\ \/ ~rendered.ensure
        \/ selected = <<>>
        \/ position_of(rendered.identifiers, selected) = None)
    => offset = Min(rendered.offset_before, last_biggest_index)

----------------------------------------------------------------------------
(* Properties of the bookkeeping that the methods read after a render *)

\* C27: after a render into an inner area of no width or no height the last
\* area and the (y, identifier) pairs are empty, and click_at returns false
\* and leaves the TreeState as it is for every position
C27_EmptyAreaForgetsRows ==
    (op = "render" /\ (rendered.width < 1 \/ rendered.available_height < 1)) =>
        /\ last_area = RectZero
        /\ last_rendered_identifiers = <<>>
        /\ \A position \in Positions :
               click_at(State, position) = Returns(State, FALSE)

\* C27 witness: a render into an area of no height, after a render that had
\* drawn some of three nodes
C27_Witness ==
    /\ op = "render"
    /\ rendered.width >= 1
    /\ rendered.available_height = 0
    /\ Len(last_identifiers) = 3
    /\ last_rendered_identifiers = <<>>

\* C28: the path that select_first, select_last, select_relative, key_up and
\* key_down select is decided by the list of the last render, its biggest
\* index and the selection: it is the same whatever was opened or closed
\* since that render, and wherever the offset is
C28_NavigationReadsCache ==
    \A later \in {[State EXCEPT !.opened = open_set] : open_set \in SUBSET Paths}
                 \cup {scroll_down(State, lines).self : lines \in Lines}
                 \cup {scroll_up(State, lines).self : lines \in Lines} :
            /\ select_first(later).self.selected = select_first(State).self.selected
            /\ select_last(later).self.selected = select_last(State).self.selected
            /\ key_up(later).self.selected = key_up(State).self.selected
            /\ key_down(later).self.selected = key_down(State).self.selected
            /\ \A change_function \in ChangeFunctions(State) :
                   select_relative(later, change_function).self.selected
                       = select_relative(State, change_function).self.selected

\* C28 witness: key_down selected b/c, which the last render drew, after b
\* had been closed
C28_Witness ==
    /\ op = "key_down"
    /\ ret = TRUE
    /\ selected = <<"b", "c">>
    /\ opened = {}
    /\ last_identifiers = << <<"a">>, <<"b">>, <<"b", "c">> >>

----------------------------------------------------------------------------
(* Properties of the height required *)

\* C30: total_required_height(open_set, items) is the sum of the heights of
\* the nodes of flatten(open_set, items), for both flatten and for the fold
\* of TreeData; an item below a closed item adds nothing, open or not
C30_RequiredHeight ==
    f_height # None =>
        LET flattened == flatten_items(f_open, tree_items, <<>>)
            nodes == flatten(f_open, tree_items, <<>>)
        IN  /\ f_height[1] = SumHeights([i \in 1..Len(flattened) |-> flattened[i].height],
                                        0, Len(flattened))
            /\ f_height[1] = tree_data_total_required_height(nodes)
            /\ f_flattened # None =>
                   f_height[1] = tree_data_total_required_height(f_flattened[1])
            /\ f_height[1] = total_required_height(
                                 {path \in f_open :
                                     \A n \in 1..(Len(path) - 1) :
                                         SubSeq(path, 1, n) \in f_open},
                                 tree_items, <<>>)

\* C30 witness: the tree a(a(a), b), b with a/a open below the closed a
\* requires the height of a and b alone
C30_Witness ==
    /\ f_height = Some(3)
    /\ f_flattened # None
    /\ tree_items = Repeated
    /\ f_open = {<<"a", "a">>}

----------------------------------------------------------------------------
(* Properties of the JSON provider *)

\* the value a path selects, the path being one of JsonPaths
RECURSIVE ValueAt(_, _)
ValueAt(value, path) ==
    IF path = <<>> THEN value
    ELSE LET children == JsonChildren(value)
             i == CHOOSE k \in 1..Len(children) : children[k].selector = Head(path)
         IN  ValueAt(children[i].value, Tail(path))

\* the place of the last selector of a path among the children of its parent
Rank(value, path) ==
    LET children == JsonChildren(ValueAt(value, SubSeq(path, 1, Len(path) - 1)))
    IN  CHOOSE k \in 1..Len(children) : children[k].selector = path[Len(path)]

\* path a comes before path b when the tree is read top to bottom
JsonBefore(value, a, b) ==
    \/ IsProperPrefix(a, b)
    \/ \E k \in 1..Min(Len(a), Len(b)) :
           /\ SubSeq(a, 1, k - 1) = SubSeq(b, 1, k - 1)
           /\ a[k] # b[k]
           /\ Rank(value, SubSeq(a, 1, k)) < Rank(value, SubSeq(b, 1, k))

\* C29: get_nodes of a scalar root is one node with the path of the single
\* selector none and has_children = false; of an empty array or object it is
\* no node; of a container it is one node per value whose containers above
\* are all open, in index / key order, children directly after their
\* container when its path is in the open-set and not at all otherwise;
\* has_children is false for scalars and empty containers
C29_JsonNodes ==
    j_nodes # None =>
        LET value == json[1]
            nodes == j_nodes[1]
            container == value.kind \in {"Array", "Object"}
            shown == {path \in JsonPaths(value, <<>>) :
                         \A n \in 1..(Len(path) - 1) : SubSeq(path, 1, n) \in j_open}
        IN  /\ ~container => nodes = <<Node(<<SelectorNone>>, FALSE, 1)>>
            /\ (container /\ JsonChildren(value) = <<>>) => nodes = <<>>
            /\ container =>
                   /\ {nodes[i].identifier : i \in 1..Len(nodes)} = shown
                   /\ Cardinality(shown) = Len(nodes)
                   /\ \A i \in 1..Len(nodes) :
                          LET path == nodes[i].identifier
                              children == JsonChildren(ValueAt(value, path))
                          IN  /\ nodes[i].height = 1
                              /\ nodes[i].has_children = (children # <<>>)
                              /\ (path \in j_open /\ children # <<>>) =>
                                     /\ i < Len(nodes)
                                     /\ nodes[i + 1].identifier
                                            = Append(path, children[1].selector)
                              /\ (path \notin j_open /\ i < Len(nodes)) =>
                                     ~IsProperPrefix(path, nodes[i + 1].identifier)
                   /\ \A i, j \in 1..Len(nodes) :
                          i < j => JsonBefore(value, nodes[i].identifier,
                                              nodes[j].identifier)

\* C29 witness: the nodes of {"foo": {"bar": [13, 37]}, "something": [42]}
\* with foo and foo/bar open
C29_Witness ==
    /\ j_nodes # None
    /\ json[1].kind = "Object"
    /\ j_open = {<<ObjectKey("foo")>>, <<ObjectKey("foo"), ObjectKey("bar")>>}
    /\ Len(j_nodes[1]) = 5
    /\ j_nodes[1][4] = Node(<<ObjectKey("foo"), ObjectKey("bar"), ArrayIndex(1)>>, FALSE, 1)
    /\ j_nodes[1][5] = Node(<<ObjectKey("something")>>, TRUE, 1)

----------------------------------------------------------------------------
(* Properties of the providers resolving paths *)

\* the paths of the nodes of the provider at hand
ProviderPaths ==
    IF json = None THEN AllPaths(tree_items, <<>>)
    ELSE IF json[1].kind \in {"Array", "Object"} THEN JsonPaths(json[1], <<>>)
    ELSE {<<SelectorNone>>}

\* C31: a path that names no node of the provider (unknown key, index out
\* of range, key or index for the wrong kind of container, a path continuing
\* below a leaf) resolves to none, and the provider's render for it leaves
\* the buffer as it was; the provider and the TreeState are left as they are
C31_UnknownPathIsNone ==
    /\ (r_path # None /\ r_path[1] # <<>> /\ r_path[1] \notin ProviderPaths) =>
           /\ r_found = None
           /\ r_buffer = <<>>
    /\ (r_path # None /\ r_path[1] = <<>>) => r_buffer = <<>>
    /\ Is(default)

\* C38: every path of flatten(open_set, items) resolves with get_item to
\* the item of that node, whose identifier is the last key of the path; every
\* path of the JSON get_nodes resolves with select to a value, which render
\* draws, the path of the single selector none of a scalar root among them
C38_EmittedPathsResolve ==
    /\ (json = None /\ f_nodes # None) =>
           /\ \A i \in 1..Len(f_nodes[1]) :
                  LET path == f_nodes[1][i].identifier
                      item == get_item(tree_items, path)
                  IN  /\ item # None
                      /\ item[1].identifier = path[Len(path)]
                      /\ item[1].height = f_nodes[1][i].height
                      /\ tree_data_render(tree_items, path, NodeArea, <<>>) # <<>>
           /\ \A flattened \in {flatten_items(f_open, tree_items, <<>>)} :
                  \A i \in 1..Len(flattened) :
                      get_item(tree_items, flattened[i].identifier) = Some(flattened[i].item)
    /\ (json # None /\ j_nodes # None) =>
           \A i \in 1..Len(j_nodes[1]) :
               LET path == j_nodes[1][i].identifier
                   value == json_select(json[1], path)
               IN  /\ value # None
                   /\ j_nodes[1][i].has_children = (JsonChildren(value[1]) # <<>>)
                   /\ json_render(json[1], path, NodeArea, <<>>) # <<>>

\* C38 witness: the one node of a scalar root, and its path resolved to the
\* root and drawn
C38_Witness ==
    /\ json = Some(JsonScalar("Number"))
    /\ j_nodes = Some(<<Node(<<SelectorNone>>, FALSE, 1)>>)
    /\ r_path = Some(<<SelectorNone>>)
    /\ r_found = json
    /\ Len(r_buffer) = 1


----------------------------------------------------------------------------
(* Properties of the windowing of render and of the drawing of a node      *)

\* the sum of the heights of the nodes start+1..end of a render
RECURSIVE HeightOf(_, _, _)
HeightOf(heights, start, end) ==
    IF start >= end THEN 0 ELSE heights[start + 1] + HeightOf(heights, start + 1, end)

\* C32: render never fails. From every offset, also one after the end of
\* the list, with every selection (none, a node of the list, a path of no
\* node), every inner area and nodes of any height >= 1 the loops of the
\* windowing read the list of nodes inside its bounds only, and the window
\* they leave satisfies start <= end <= node_count with the height of its
\* nodes, so that end - start does not underflow; with no node or an inner
\* area of no width or no height render returns before the windowing and
\* leaves offset, selection and open-set alone
C32_RenderNeverFails ==
    op = "render" =>
        /\ rendered.called
        /\ ~rendered.panicked
        /\ \A i \in 1..rendered.node_count : rendered.heights[i] >= 1
        /\ IF rendered.width < 1 \/ rendered.available_height < 1
              \/ rendered.node_count = 0
           THEN /\ ~rendered.computed
                /\ offset = rendered.offset_before
           ELSE /\ rendered.computed
                /\ rendered.start <= rendered.end
                /\ rendered.end <= rendered.node_count
                /\ rendered.height =
                       HeightOf(rendered.heights, rendered.start, rendered.end)
                /\ rendered.height <= rendered.available_height
                /\ offset = rendered.start

\* C32 witness: a render of nodes, one of them higher than the area, from an
\* offset after the end of the list and with a selection that is no node
C32_Witness ==
    /\ op = "render"
    /\ rendered.computed
    /\ rendered.offset_before > rendered.node_count
    /\ selected # <<>>
    /\ \A i \in 1..rendered.node_count : rendered.identifiers[i] # selected
    /\ \E i \in 1..rendered.node_count :
           rendered.heights[i] > rendered.available_height

\* C33: the symbol in front of a drawn node is the one of a node with no
\* children when its item has no children, be its identifier in the open-set
\* or not, else the open symbol when its identifier is in the open-set, else
\* the closed symbol; the indentation handed to the buffer is 2 cells for
\* every level of depth, and a symbol that reaches the buffer starts that
\* many cells after the highlight column. The example tree with the
\* open-set {b} draws a, b, c, d, g, h, b with the open and d with the
\* closed symbol
C33_NodeSymbol ==
    op = "render" =>
        /\ \A i \in 1..Len(d_rows) :
               LET row == d_rows[i]
                   item == get_item(tree_items, row.identifier)
                   level == Len(row.identifier) - 1
               IN  /\ item # None
                   /\ row.symbol =
                          IF item[1].children = <<>>
                          THEN node_no_children_symbol
                          ELSE IF row.identifier \in opened
                               THEN node_open_symbol
                               ELSE node_closed_symbol
                   /\ row.indent_width = 2 * level
                   /\ row.after_depth_x > row.after_indent_x =>
                          row.after_indent_x = row.after_highlight_symbol_x + 2 * level
        /\ (/\ tree_items = example
            /\ opened = {<<"b">>}
            /\ rendered.available_height >= 6
            /\ rendered.width >= 1) =>
               /\ [i \in 1..Len(d_rows) |-> d_rows[i].identifier] =
                      << <<"a">>, <<"b">>, <<"b", "c">>, <<"b", "d">>, <<"b", "g">>,
                         <<"h">> >>
               /\ d_rows[2].symbol = node_open_symbol
               /\ d_rows[4].symbol = node_closed_symbol
               /\ \A i \in {1, 3, 5, 6} : d_rows[i].symbol = node_no_children_symbol

\* C33 witness: the example tree drawn with b and the leaf c in the open-set
\* and d selected: c has the symbol of no children, d the closed symbol two
\* cells after the highlight symbol
C33_Witness ==
    /\ op = "render"
    /\ tree_items = example
    /\ opened = {<<"b">>, <<"b", "c">>}
    /\ selected = <<"b", "d", "e">>
    /\ Len(d_rows) = 6
    /\ d_rows[2].symbol = node_open_symbol
    /\ d_rows[3].symbol = node_no_children_symbol
    /\ d_rows[4].symbol = node_closed_symbol
    /\ d_rows[4].after_highlight_symbol_x = 3
    /\ d_rows[4].after_indent_x = 5
    /\ d_rows[4].after_depth_x = 7

\* the state after one more render of the same items into the area of the
\* render that ran last
RenderedAgain ==
    render(State, tree_items, Rect(0, 1, rendered.width, rendered.available_height)).self

AfterNoScroll ==
    UNION {{select(State, identifier).self, open(State, identifier).self,
            close(State, identifier).self, toggle(State, identifier).self}
           : identifier \in Identifiers}
    \cup {toggle_selected(State).self, close_all(State).self,
          select_first(State).self, select_last(State).self,
          key_up(State).self, key_down(State).self,
          key_left(State).self, key_right(State).self,
          scroll_selected_into_view(State)}
    \cup {select_relative(State, change_function).self
          : change_function \in ChangeFunctions(State)}
    \cup {click_at(State, position).self : position \in Positions}

RECURSIVE KeyLeftTimes(_, _)
KeyLeftTimes(self, n) ==
    IF n = 0 THEN self ELSE KeyLeftTimes(key_left(self).self, n - 1)

\* C36: key_left called again and again, with no other call in between,
\* reaches the empty selection after at most 2 * Len(selected) calls: every
\* call on a selection returns true and either closes the selection, which
\* stays, or drops its last segment, the open-set staying; on the empty
\* selection key_left returns false and leaves selection and open-set alone
C36_KeyLeftRun ==
    /\ KeyLeftTimes(State, 2 * Len(selected)).selected = <<>>
    /\ \A n \in 0..(2 * Len(selected)) :
           LET before == KeyLeftTimes(State, n)
               call == key_left(before)
               after == call.self
           IN  IF before.selected = <<>>
               THEN /\ call.ret = FALSE
                    /\ after.selected = <<>>
                    /\ after.opened = before.opened
               ELSE /\ call.ret = TRUE
                    /\ \/ /\ before.selected \in before.opened
                          /\ after.opened = before.opened \ {before.selected}
                          /\ after.selected = before.selected
                       \/ /\ before.selected \notin before.opened
                          /\ after.opened = before.opened
                          /\ after.selected =
                                 SubSeq(before.selected, 1, Len(before.selected) - 1)

\* C36 witness: key_left closed the selection b, c while b is open: three
\* more calls, and not two, empty the selection, and the call after them
\* returns false
C36_Witness ==
    /\ op = "key_left"
    /\ ret
    /\ selected = <<"b", "c">>
    /\ <<"b">> \in opened
    /\ KeyLeftTimes(State, 2).selected # <<>>
    /\ KeyLeftTimes(State, 3).selected = <<>>
    /\ ~key_left(KeyLeftTimes(State, 3)).ret


----------------------------------------------------------------------------
(* Properties of the list of nodes flatten produces                         *)

\* the identifiers of the items of one list differ, and so on below them
RECURSIVE DistinctSiblings(_)
DistinctSiblings(items) ==
    /\ \A i, j \in 1..Len(items) :
           items[i].identifier = items[j].identifier => i = j
    /\ \A i \in 1..Len(items) : DistinctSiblings(items[i].children)

\* C37: for a tree whose siblings have distinct identifiers the list flatten
\* produces holds no identifier twice and no empty identifier; an identifier
\* of more than one key is the identifier of a node earlier in the list, its
\* parent, and one key more; the depth of every node is the length of its
\* identifier less 1, in the list of flatten and in the list of the generic
\* flatten, which counts the depth on its own
C37_FlattenPaths ==
    (DistinctSiblings(tree_items) /\ f_nodes # None) =>
        LET nodes == f_nodes[1]
        IN  /\ \A i \in 1..Len(nodes) :
                   LET path == nodes[i].identifier
                   IN  /\ path # <<>>
                       /\ \A j \in 1..Len(nodes) : nodes[j].identifier = path => i = j
                       /\ depth(nodes[i]) = Len(path) - 1
                       /\ Len(path) > 1 =>
                              \E j \in 1..(i - 1) :
                                  /\ nodes[j].identifier = SubSeq(path, 1, Len(path) - 1)
                                  /\ nodes[j].has_children
                                  /\ depth(nodes[j]) = depth(nodes[i]) - 1
            /\ f_generic # None =>
                   /\ Len(f_generic[1]) = Len(nodes)
                   /\ \A i \in 1..Len(nodes) :
                          /\ f_generic[1][i].identifier = nodes[i].identifier
                          /\ f_generic[1][i].depth = depth(nodes[i])

\* C37 witness: the tree a(a(a), b), b, whose keys repeat along a path and
\* under different parents, flattened with a and a, a open: five nodes, the
\* third of depth 2
C37_Witness ==
    /\ tree_items = Repeated
    /\ f_open = {<<"a">>, <<"a", "a">>}
    /\ f_nodes # None
    /\ f_generic # None
    /\ Len(f_nodes[1]) = 5
    /\ f_nodes[1][3].identifier = <<"a", "a", "a">>
    /\ depth(f_nodes[1][3]) = 2


============================================================================
